---- MODULE Spec2Model ----
(***************************************************************************)
(* Model of tome-backend/scraper/hardcover_scraper.py: the resumable       *)
(* scraper loop (HardcoverScraper.run), the per-record import transaction  *)
(* (DatabaseManager.import_edition and its helpers) and the run ledger     *)
(* (scraper_runs / scraper_errors).                                        *)
(*                                                                         *)
(* Conventions: Python None / "" / [] of a text field is the empty         *)
(* sequence <<>> (or the empty string for one-word labels); None of an id  *)
(* is 0 (ids of the store start at 1).  Text that the code inspects        *)
(* character by character (title, ISBN) is a sequence of one-character     *)
(* strings; messages are sequences of words.                               *)
(***************************************************************************)
EXTENDS Integers, Sequences, FiniteSets, TLC

\* ------------------------------------------------------------------------
\* Configuration (module constants of the script)
\* ------------------------------------------------------------------------
\* TARGET_BOOKS_LIMIT and BOOKS_PER_BATCH are read from the environment
\* (defaults 5000 and 50); the model runs the script configured with a
\* target of two books and pages of two books
TARGET_BOOKS_LIMIT == 2
BOOKS_PER_BATCH == 2
REQUESTS_PER_MINUTE == 60
MIN_GENRE_TAG_COUNT == 20
ISBN_10_LENGTH == 10
ISBN_13_LENGTH == 13
SUPPORTED_LANGUAGES == {"english", "en"}

\* ------------------------------------------------------------------------
\* Bounds of the model
\* ------------------------------------------------------------------------
\* number of executions of the script (process launches)
MaxExecs == 2
\* number of page fetches over all executions
MaxFetches == 4
\* number of store faults (failed statements, lost connections) injected
MaxFaults == 1
\* the clock of the rate gate counts ticks; resolution and horizon
TicksPerMinute == 120
MaxTime == 9

\* ------------------------------------------------------------------------
\* Text helpers
\* ------------------------------------------------------------------------
Digits == {"0", "1", "2", "3", "4", "5", "6", "7", "8", "9"}

RECURSIVE lstrip(_)
lstrip(s) == IF s # <<>> /\ Head(s) = " " THEN lstrip(Tail(s)) ELSE s

RECURSIVE rstrip(_)
rstrip(s) ==
    IF s # <<>> /\ s[Len(s)] = " " THEN rstrip(SubSeq(s, 1, Len(s) - 1)) ELSE s

\* str.strip()
strip(s) == rstrip(lstrip(s))

\* a character outside 0-9 that str.isdigit() accepts (and str.isdecimal()
\* does not): U+00B2 SUPERSCRIPT TWO, written here as one symbol
SuperscriptTwo == "^2"

\* str.isdigit(): non-empty and every character has the Unicode property
\* Numeric_Type Digit or Decimal
isdigit(s) ==
    s # <<>> /\ \A i \in 1..Len(s) : s[i] \in Digits \cup {SuperscriptTwo}

\* str.lower() on the words the model uses
lower(w) ==
    CASE w = "English" -> "english"
      [] w = "EN" -> "en"
      [] w = "French" -> "french"
      [] w = "Fantasy" -> "fantasy"
      [] w = "Drama" -> "drama"
      [] w = "Already" -> "already"
      [] w = "Duplicate" -> "duplicate"
      [] w = "Missing" -> "missing"
      [] w = "Non-English" -> "non-english"
      [] w = "No" -> "no"
      [] w = "Error" -> "error"
      [] w = "ISBN-10" -> "isbn-10"
      [] w = "ISBN-13" -> "isbn-13"
      [] w = "ISBNs" -> "isbns"
      [] w = "ID" -> "id"
      [] OTHER -> w

lower_words(m) == [i \in 1..Len(m) |-> lower(m[i])]

\* keyword in text, for a keyword and a text that are sequences of words
contains(m, kw) ==
    \E i \in 1..(Len(m) - Len(kw) + 1) : SubSeq(m, i, i + Len(kw) - 1) = kw

\* ------------------------------------------------------------------------
\* The source catalogue (what the remote API serves, by offset)
\* ------------------------------------------------------------------------
Isbn10(d) == [i \in 1..ISBN_10_LENGTH |-> d]
Isbn13(d) == [i \in 1..ISBN_13_LENGTH |-> d]

Contribution(id, bio) == [id |-> id, bio |-> bio]

Tag(tag, count) == [tag |-> tag, count |-> count]

Edition(id, title, isbn_10, isbn_13, language, contributions) ==
    [id |-> id, title |-> title, isbn_10 |-> isbn_10, isbn_13 |-> isbn_13,
     language |-> language, contributions |-> contributions]

Book(id, edition, genre_tags) ==
    [id |-> id, has_edition |-> TRUE, default_physical_edition |-> edition,
     cached_tags |-> genre_tags]

\* Three books ordered by popularity: an English edition with two authors
\* that have a biography, a French edition, and an English edition that
\* shares an author with the first and has a contributor without biography.
Catalog ==
    << Book(1, Edition(11, <<"D", "u", "n", "e", " ">>, Isbn10("1"), <<>>, "English",
                       << Contribution(1, "bio"), Contribution(2, "bio") >>),
            << Tag("Fantasy", 25), Tag("Drama", 5) >>),
       Book(2, Edition(12, <<"E", "t">>, <<>>, Isbn13("2"), "French",
                       << Contribution(2, "bio") >>),
            << Tag("Drama", 30) >>),
       Book(3, Edition(13, <<"I", "t">>, Isbn10("3"), Isbn13("3"), "",
                       << Contribution(1, "bio"), Contribution(3, "") >>),
            << Tag("fantasy", 5) >>) >>

\* the books the API returns for (limit, offset) when the request succeeds
CatalogPage(limit, offset) ==
    SubSeq(Catalog, offset + 1,
           IF offset + limit <= Len(Catalog) THEN offset + limit ELSE Len(Catalog))

\* ------------------------------------------------------------------------
\* Faults.  A fault names the statement of a handler that the store rejects
\* (the connection stays usable); k is the position of the contributor /
\* genre / tag the statement is about.  "bad_field" is a record of the
\* source that makes _process_book raise.
\* ------------------------------------------------------------------------
Fault(at, k) == [at |-> at, k |-> k]
NoFault == Fault("none", 0)

\* the book insert violates a unique constraint of the store (another
\* writer stored the same edition or ISBN after the checks)
UniqueViolation == Fault("book_insert", 1)

\* the text of the exception a rejected statement raises; the store reports
\* a unique violation as "duplicate key value violates unique constraint"
ErrorText(f) ==
    IF f = UniqueViolation
    THEN << "duplicate", "key", "value" >>
    ELSE << "statement", "failed", f.at >>

\* ------------------------------------------------------------------------
\* DatabaseManager: catalogue tables and the in-process caches.
\* tx is the store as the open transaction sees it; a cache is a set of
\* [key, id] entries.
\* ------------------------------------------------------------------------
EmptyTables ==
    [books |-> {}, authors |-> {}, genres |-> {},
     book_authors |-> {}, book_genres |-> {},
     book_seq |-> 0, author_seq |-> 0, genre_seq |-> 0,
     \* the number of COMMITs that made catalogue rows durable
     commits |-> 0]

\* conn.commit() of a transaction that wrote catalogue rows
commit(tx) == [tx EXCEPT !.commits = @ + 1]

\* the open transaction tx of an import as it is before its conn.commit()
before_commit(tx) == [tx EXCEPT !.commits = @ - 1]

cached(cache, key) == \E e \in cache : e.key = key
cache_get(cache, key) == (CHOOSE e \in cache : e.key = key).id
cache_put(cache, key, id) == cache \cup {[key |-> key, id |-> id]}

\* foreign keys of the link tables: a link row must reference existing rows
author_row_exists(tx, author_id) == \E a \in tx.authors : a.id = author_id
genre_row_exists(tx, genre_id) == \E g \in tx.genres : g.id = genre_id

\* (mutant) a created author is committed at once
get_or_create_author_committing(st, hardcover_id, fail) ==
    IF cached(st.author_cache, hardcover_id)
    THEN [st |-> st, id |-> cache_get(st.author_cache, hardcover_id)]
    ELSE IF fail
    THEN [st |-> st, id |-> 0]
    ELSE IF \E a \in st.tx.authors : a.external_id = hardcover_id
    THEN LET author_id ==
                 (CHOOSE a \in st.tx.authors : a.external_id = hardcover_id).id
         IN  [st |-> [st EXCEPT !.author_cache =
                                    cache_put(@, hardcover_id, author_id)],
              id |-> author_id]
    ELSE LET author_id == st.tx.author_seq + 1
         IN  [st |-> [st EXCEPT
                        !.tx.authors = @ \cup {[id |-> author_id,
                                                external_id |-> hardcover_id]},
                        !.tx.author_seq = author_id,
                        !.tx.commits = @ + 1,
                        !.author_cache = cache_put(@, hardcover_id, author_id)],
              id |-> author_id]

\* get_or_create_author; id 0 is the None the code returns on failure
get_or_create_author(st, hardcover_id, fail) ==
    IF cached(st.author_cache, hardcover_id)
    THEN [st |-> st, id |-> cache_get(st.author_cache, hardcover_id)]
    ELSE IF fail
    THEN [st |-> st, id |-> 0]
    ELSE IF \E a \in st.tx.authors : a.external_id = hardcover_id
    THEN LET author_id ==
                 (CHOOSE a \in st.tx.authors : a.external_id = hardcover_id).id
         IN  [st |-> [st EXCEPT !.author_cache =
                                    cache_put(@, hardcover_id, author_id)],
              id |-> author_id]
    ELSE LET author_id == st.tx.author_seq + 1
         IN  [st |-> [st EXCEPT
                        !.tx.authors = @ \cup {[id |-> author_id,
                                                external_id |-> hardcover_id]},
                        !.tx.author_seq = author_id,
                        !.author_cache = cache_put(@, hardcover_id, author_id)],
              id |-> author_id]

\* (mutant) the genre is looked up and memoized by its name as written
get_or_create_genre_exact_case(st, name, fail) ==
    IF name = ""
    THEN [st |-> st, id |-> 0]
    ELSE IF cached(st.genre_cache, name)
    THEN [st |-> st, id |-> cache_get(st.genre_cache, name)]
    ELSE IF fail
    THEN [st |-> st, id |-> 0]
    ELSE IF \E g \in st.tx.genres : g.name = name
    THEN LET genre_id == (CHOOSE g \in st.tx.genres : g.name = name).id
         IN  [st |-> [st EXCEPT !.genre_cache = cache_put(@, name, genre_id)],
              id |-> genre_id]
    ELSE LET genre_id == st.tx.genre_seq + 1
         IN  [st |-> [st EXCEPT
                        !.tx.genres = @ \cup {[id |-> genre_id, name |-> name]},
                        !.tx.genre_seq = genre_id,
                        !.genre_cache = cache_put(@, name, genre_id)],
              id |-> genre_id]

\* get_or_create_genre
get_or_create_genre(st, name, fail) ==
    IF name = ""
    THEN [st |-> st, id |-> 0]
    ELSE IF cached(st.genre_cache, lower(name))
    THEN [st |-> st, id |-> cache_get(st.genre_cache, lower(name))]
    ELSE IF fail
    THEN [st |-> st, id |-> 0]
    ELSE IF \E g \in st.tx.genres : lower(g.name) = lower(name)
    THEN LET genre_id ==
                 (CHOOSE g \in st.tx.genres : lower(g.name) = lower(name)).id
         IN  [st |-> [st EXCEPT !.genre_cache =
                                    cache_put(@, lower(name), genre_id)],
              id |-> genre_id]
    ELSE LET genre_id == st.tx.genre_seq + 1
         IN  [st |-> [st EXCEPT
                        !.tx.genres = @ \cup {[id |-> genre_id, name |-> name]},
                        !.tx.genre_seq = genre_id,
                        !.genre_cache = cache_put(@, lower(name), genre_id)],
              id |-> genre_id]

\* genre_exists
genre_exists(st, name, fail) ==
    IF name = ""
    THEN [st |-> st, found |-> FALSE]
    ELSE IF cached(st.genre_cache, lower(name))
    THEN [st |-> st, found |-> TRUE]
    ELSE IF fail
    THEN [st |-> st, found |-> FALSE]
    ELSE IF \E g \in st.tx.genres : lower(g.name) = lower(name)
    THEN LET genre_id ==
                 (CHOOSE g \in st.tx.genres : lower(g.name) = lower(name)).id
         IN  [st |-> [st EXCEPT !.genre_cache =
                                    cache_put(@, lower(name), genre_id)],
              found |-> TRUE]
    ELSE [st |-> st, found |-> FALSE]

\* book_exists: a failed check answers False
book_exists(tx, hardcover_edition_id, fail) ==
    ~fail /\ \E b \in tx.books : b.external_id = hardcover_edition_id

\* the test of _validate_isbn on the trimmed text
isbn_if_valid(isbn, expected_length) ==
    IF Len(isbn) = expected_length /\ isdigit(isbn) THEN isbn ELSE <<>>

\* _validate_isbn: the trimmed code, or <<>> (None)
_validate_isbn(isbn, expected_length) ==
    IF isbn = <<>> THEN <<>> ELSE isbn_if_valid(strip(isbn), expected_length)

\* (mutant) no duplicate is ever reported
no_duplicate_check(tx, isbn_10, isbn_13) == <<>>

\* _check_duplicate_isbn: the error message, or <<>> (None)
_check_duplicate_isbn(tx, isbn_10, isbn_13) ==
    IF isbn_10 # <<>> /\ \E b \in tx.books : b.isbn_10 = isbn_10
    THEN << "Duplicate", "ISBN-10" >>
    ELSE IF isbn_13 # <<>> /\ \E b \in tx.books : b.isbn_13 = isbn_13
    THEN << "Duplicate", "ISBN-13" >>
    ELSE <<>>

\* (mutant) the label is compared as it is, not lower-cased
_validate_language_exact_case(edition_data) ==
    IF edition_data.language # ""
       /\ edition_data.language \notin SUPPORTED_LANGUAGES
    THEN [valid |-> FALSE,
          message |-> << "Non-English", "language", edition_data.language >>]
    ELSE [valid |-> TRUE, message |-> <<>>]

\* _validate_language: (is_valid, error message)
_validate_language(edition_data) ==
    IF lower(edition_data.language) # ""
       /\ lower(edition_data.language) \notin SUPPORTED_LANGUAGES
    THEN [valid |-> FALSE,
          message |-> << "Non-English", "language", lower(edition_data.language) >>]
    ELSE [valid |-> TRUE, message |-> <<>>]

\* the link INSERT ... ON CONFLICT (book_id, author_id) DO NOTHING
insert_book_author(tx, book_id, author_id, author_order) ==
    IF \E l \in tx.book_authors : l.book_id = book_id /\ l.author_id = author_id
    THEN tx
    ELSE [tx EXCEPT !.book_authors =
                        @ \cup {[book_id |-> book_id, author_id |-> author_id,
                                 author_order |-> author_order]}]

\* the link INSERT ... ON CONFLICT (book_id, genre_id) DO NOTHING
insert_book_genre(tx, book_id, genre_id) ==
    IF \E l \in tx.book_genres : l.book_id = book_id /\ l.genre_id = genre_id
    THEN tx
    ELSE [tx EXCEPT !.book_genres =
                        @ \cup {[book_id |-> book_id, genre_id |-> genre_id]}]

\* (mutant) an author counts as imported whether or not the link was inserted
link_book_author_miscounted(acc, book_id, got, insert_ok) ==
    [st |-> IF got.id # 0 /\ insert_ok /\ author_row_exists(got.st.tx, got.id)
            THEN [got.st EXCEPT !.tx = insert_book_author(@, book_id, got.id,
                                                          acc.author_order)]
            ELSE got.st,
     authors_imported |-> acc.authors_imported + 1,
     author_order |-> acc.author_order + 1]

\* the link step of _process_book_authors for the author got.id (0: None).
\* acc carries the store state (st) and the two counters of the loop.
link_book_author(acc, book_id, got, insert_ok) ==
    IF got.id # 0 /\ insert_ok /\ author_row_exists(got.st.tx, got.id)
    THEN [st |-> [got.st EXCEPT !.tx = insert_book_author(@, book_id, got.id,
                                                          acc.author_order)],
          authors_imported |-> acc.authors_imported + 1,
          author_order |-> acc.author_order + 1]
    ELSE \* no author, or ROLLBACK TO SAVEPOINT link_book_author
         [acc EXCEPT !.st = got.st]

\* (mutant) a contributor is processed whether or not it has a biography
process_contribution_any_bio(i, author_data, book_id, acc, f) ==
    link_book_author(acc, book_id,
                     get_or_create_author(acc.st, author_data.id,
                                          f = Fault("author", i)),
                     f # Fault("author_link", i))

\* one iteration of the loop of _process_book_authors
process_contribution(i, author_data, book_id, acc, f) ==
    IF author_data.bio = ""
    THEN \* "Skip authors without a bio"
         acc
    ELSE link_book_author(acc, book_id,
                          get_or_create_author(acc.st, author_data.id,
                                               f = Fault("author", i)),
                          f # Fault("author_link", i))

RECURSIVE process_book_authors_from(_, _, _, _, _)
process_book_authors_from(i, contributions, book_id, acc, f) ==
    IF i > Len(contributions)
    THEN acc
    ELSE process_book_authors_from(
             i + 1, contributions, book_id,
             process_contribution(i, contributions[i], book_id, acc, f), f)

_process_book_authors(st, edition_data, book_id, f) ==
    process_book_authors_from(1, edition_data.contributions, book_id,
                              [st |-> st, authors_imported |-> 0,
                               author_order |-> 1], f)

\* the link step of _process_book_genres for the genre got.id (0: None)
link_book_genre(book_id, got, insert_ok) ==
    IF got.id # 0 /\ insert_ok /\ genre_row_exists(got.st.tx, got.id)
    THEN [got.st EXCEPT !.tx = insert_book_genre(@, book_id, got.id)]
    ELSE \* no genre, or ROLLBACK TO SAVEPOINT link_book_genre
         got.st

RECURSIVE process_book_genres_from(_, _, _, _, _)
process_book_genres_from(i, genres, book_id, st, f) ==
    IF i > Len(genres)
    THEN st
    ELSE process_book_genres_from(
             i + 1, genres, book_id,
             link_book_genre(book_id,
                             get_or_create_genre(st, genres[i],
                                                 f = Fault("genre", i)),
                             f # Fault("genre_link", i)),
             f)

_process_book_genres(st, genres, book_id, f) ==
    process_book_genres_from(1, genres, book_id, st, f)

\* (mutant) the except branch leaves the writes of the record in the
\* transaction, and the next commit makes them durable
rollback_nothing(committed, tx) == tx

\* ROLLBACK TO SAVEPOINT edition_import; conn.rollback(): the tables as last
\* committed (the sequences of the store are not transactional)
rollback(committed, tx) ==
    [committed EXCEPT !.book_seq = tx.book_seq, !.author_seq = tx.author_seq,
                      !.genre_seq = tx.genre_seq, !.commits = tx.commits]

\* (mutant) the rejection does not carry the text of the exception
import_failed_no_text(committed, st, f) ==
    [st |-> [st EXCEPT !.tx = rollback(committed, st.tx)],
     success |-> FALSE,
     message |-> << "Error", "importing", "edition" >>,
     authors_imported |-> 0]

\* the except branch of import_edition
import_failed(committed, st, f) ==
    [st |-> [st EXCEPT !.tx = rollback(committed, st.tx)],
     success |-> FALSE,
     message |-> << "Error", "importing", "edition" >> \o ErrorText(f),
     authors_imported |-> 0]

import_rejected(st, message) ==
    [st |-> st, success |-> FALSE, message |-> message, authors_imported |-> 0]

\* the INSERT INTO books of import_edition
insert_book(tx, edition_data, title, isbn_10, isbn_13) ==
    [tx EXCEPT !.books = @ \cup {[id |-> tx.book_seq + 1,
                                  external_id |-> edition_data.id,
                                  title |-> title,
                                  isbn_10 |-> isbn_10, isbn_13 |-> isbn_13]},
               !.book_seq = tx.book_seq + 1]

\* RELEASE SAVEPOINT edition_import; conn.commit(); st is the state after
\* the genres were processed
import_commit(committed, st, authors_imported, f) ==
    IF f.at = "commit"
    THEN import_failed(committed, st, f)
    ELSE [st |-> [st EXCEPT !.tx = commit(@)], success |-> TRUE,
          message |-> << "Successfully", "imported" >>,
          authors_imported |-> authors_imported]

\* _process_book_genres and the commit; authors is what
\* _process_book_authors left
import_genres_and_commit(committed, authors, book_internal_id, genres, f) ==
    import_commit(committed,
                  _process_book_genres(authors.st, genres, book_internal_id, f),
                  authors.authors_imported, f)

\* the statements of import_edition after the book row is inserted
import_links_and_commit(committed, st, edition_data, book_internal_id, genres, f) ==
    import_genres_and_commit(
        committed,
        _process_book_authors(st, edition_data, book_internal_id, f),
        book_internal_id, genres, f)

\* (mutant) the language is checked before the duplicates
import_validated_language_first(st, edition_data, title, isbn_10, isbn_13, duplicate_error, language, genres, f) ==
    IF title = <<>>
    THEN import_rejected(st, << "Missing", "title" >>)
    ELSE IF isbn_10 = <<>> /\ isbn_13 = <<>>
    THEN import_rejected(st, << "Missing", "or", "invalid", "ISBNs" >>)
    ELSE IF ~language.valid
    THEN import_rejected(st, language.message)
    ELSE IF f.at = "dup_check"
    THEN import_failed(st.tx, st, f)
    ELSE IF duplicate_error # <<>>
    THEN import_rejected(st, duplicate_error)
    ELSE IF f.at = "book_insert"
    THEN import_failed(st.tx, st, f)
    ELSE import_links_and_commit(
             st.tx,
             [st EXCEPT !.tx = insert_book(@, edition_data, title,
                                           isbn_10, isbn_13)],
             edition_data, st.tx.book_seq + 1, genres, f)

\* import_edition once title and ISBNs are normalised and the duplicate and
\* language checks are evaluated (a failing duplicate query raises first)
import_validated(st, edition_data, title, isbn_10, isbn_13, duplicate_error, language, genres, f) ==
    IF title = <<>>
    THEN import_rejected(st, << "Missing", "title" >>)
    ELSE IF isbn_10 = <<>> /\ isbn_13 = <<>>
    THEN import_rejected(st, << "Missing", "or", "invalid", "ISBNs" >>)
    ELSE IF f.at = "dup_check"
    THEN import_failed(st.tx, st, f)
    ELSE IF duplicate_error # <<>>
    THEN import_rejected(st, duplicate_error)
    ELSE IF ~language.valid
    THEN import_rejected(st, language.message)
    ELSE IF f.at = "book_insert"
    THEN import_failed(st.tx, st, f)
    ELSE import_links_and_commit(
             st.tx,
             [st EXCEPT !.tx = insert_book(@, edition_data, title,
                                           isbn_10, isbn_13)],
             edition_data, st.tx.book_seq + 1, genres, f)

\* the duplicate check on the validated ISBNs
check_duplicates(st, edition_data, title, isbn_10, isbn_13, genres, f) ==
    import_validated(st, edition_data, title, isbn_10, isbn_13,
                     _check_duplicate_isbn(st.tx, isbn_10, isbn_13),
                     _validate_language(edition_data), genres, f)

\* import_edition.  st.tx is the committed store on entry (nothing is
\* written between two records); on return st.tx is committed again.
import_edition(st, edition_data, genres, f) ==
    check_duplicates(st, edition_data, strip(edition_data.title),
                     _validate_isbn(edition_data.isbn_10, ISBN_10_LENGTH),
                     _validate_isbn(edition_data.isbn_13, ISBN_13_LENGTH),
                     genres, f)

\* ------------------------------------------------------------------------
\* HardcoverScraper: per-record helpers
\* ------------------------------------------------------------------------
\* first pass of _extract_genres_from_tags: tags with count >= the minimum
RECURSIVE popular_tags_from(_, _)
popular_tags_from(i, genre_tags) ==
    IF i > Len(genre_tags)
    THEN <<>>
    ELSE (IF genre_tags[i].tag # ""
             /\ genre_tags[i].count >= MIN_GENRE_TAG_COUNT
          THEN << genre_tags[i].tag >>
          ELSE <<>>) \o popular_tags_from(i + 1, genre_tags)

\* second pass: the first tag that genre_exists finds, if any
RECURSIVE fallback_tag_from(_, _, _, _)
RECURSIVE fallback_tag_next(_, _, _, _)

fallback_tag_from(i, genre_tags, st, f) ==
    IF i > Len(genre_tags)
    THEN [st |-> st, genres |-> <<>>]
    ELSE fallback_tag_next(i, genre_tags,
                           genre_exists(st, genre_tags[i].tag,
                                        f = Fault("genre_exists", i)),
                           f)

fallback_tag_next(i, genre_tags, got, f) ==
    IF got.found
    THEN [st |-> got.st, genres |-> << genre_tags[i].tag >>]
    ELSE fallback_tag_from(i + 1, genre_tags, got.st, f)

genres_or_fallback(st, genre_tags, genres, f) ==
    IF genres # <<>>
    THEN [st |-> st, genres |-> genres]
    ELSE fallback_tag_from(1, genre_tags, st, f)

_extract_genres_from_tags(st, genre_tags, f) ==
    genres_or_fallback(st, genre_tags, popular_tags_from(1, genre_tags), f)

\* (mutant) the message is searched as it is, not lower-cased
_is_ignorable_error_exact_case(error_message) ==
    error_message # <<>>
    /\ \E kw \in { << "duplicate" >>, << "already", "exists" >>,
                    << "already", "imported" >> } : contains(error_message, kw)

ignorable_keywords == { << "duplicate" >>, << "already", "exists" >>,
                        << "already", "imported" >> }

_is_ignorable_error(error_message) ==
    error_message # <<>>
    /\ \E kw \in ignorable_keywords : contains(lower_words(error_message), kw)

process_result(st, success, authors_imported, error_message) ==
    [st |-> st, success |-> success, authors_imported |-> authors_imported,
     error_message |-> error_message, raised |-> FALSE]

\* _process_book raises: a field of the record has a type the code does not
\* expect (ebook_pages > 0 on a text, cached_tags.get on a list)
process_raised(st) ==
    [st |-> st, success |-> FALSE, authors_imported |-> 0,
     error_message |-> <<>>, raised |-> TRUE]

\* what _process_book returns for the result imp of import_edition
import_result(imp) ==
    process_result(imp.st, imp.success, imp.authors_imported,
                   IF imp.success THEN <<>> ELSE imp.message)

import_with_genres(tags, edition_data, f) ==
    IF f.at = "bad_field"
    THEN process_raised(tags.st)
    ELSE import_result(import_edition(tags.st, edition_data, tags.genres, f))

\* _process_book: (success, authors_imported, error_message) and the store
\* state it leaves; error_message <<>> is None
_process_book(st, book, f) ==
    IF book.id = 0
    THEN process_result(st, FALSE, 0, << "Missing", "book", "ID" >>)
    ELSE IF ~book.has_edition
    THEN process_result(st, FALSE, 0, << "No", "physical", "edition" >>)
    ELSE IF book.default_physical_edition.id = 0
    THEN process_result(st, FALSE, 0, << "Missing", "edition", "ID" >>)
    ELSE IF book_exists(st.tx, book.default_physical_edition.id,
                        f.at = "book_exists")
    THEN process_result(st, FALSE, 0, << "Already", "imported" >>)
    ELSE import_with_genres(
             _extract_genres_from_tags(st, book.cached_tags, f),
             book.default_physical_edition, f)

\* the statements of one record's processing that a fault can hit
RecordFaults(book) ==
    {NoFault}
    \cup {Fault(at, 0) : at \in {"book_exists", "bad_field", "dup_check",
                                  "book_insert", "commit", "log_error"}}
    \cup {UniqueViolation}
    \cup {Fault(at, k) : at \in {"author", "author_link"},
                         k \in 1..Len(book.default_physical_edition.contributions)}
    \cup {Fault(at, k) : at \in {"genre_exists", "genre", "genre_link"},
                         k \in 1..Len(book.cached_tags)}

AllRecordFaults == UNION {RecordFaults(Catalog[i]) : i \in DOMAIN Catalog}

\* ------------------------------------------------------------------------
\* DatabaseManager: the run ledger (scraper_runs) and error log
\* ------------------------------------------------------------------------
ResumableStatuses == {"running", "stopped"}

RunRow(id, started_at) ==
    [id |-> id, status |-> "running", started_at |-> started_at,
     last_offset |-> 0, last_hardcover_book_id |-> 0,
     books_processed |-> 0, editions_imported |-> 0,
     authors_imported |-> 0, errors_count |-> 0]

\* (mutant) only stopped runs are looked for
incomplete_runs_stopped_only(runs) ==
    {i \in DOMAIN runs : runs[i].status = "stopped"}

\* (mutant) the SELECT has no WHERE clause on the status
incomplete_runs_any_status(runs) == DOMAIN runs

\* WHERE status IN ('running', 'stopped')
incomplete_runs(runs) ==
    {i \in DOMAIN runs : runs[i].status \in ResumableStatuses}

\* ORDER BY started_at DESC LIMIT 1
latest_run(runs, ids) ==
    IF ids = {}
    THEN 0
    ELSE CHOOSE i \in ids : \A j \in ids : runs[j].started_at <= runs[i].started_at

\* get_last_incomplete_run: the id of the row it returns, 0 for None
get_last_incomplete_run(runs) == latest_run(runs, incomplete_runs(runs))

\* (mutant) a resumed run starts from the beginning
resume_offset_zero(runs, resume_run_id) == 0

\* offset = incomplete_run.get("last_offset", 0) or 0, else 0
resume_offset(runs, resume_run_id) ==
    IF resume_run_id # 0 THEN runs[resume_run_id].last_offset ELSE 0

\* start_scraper_run: the table after the UPDATE (resume) or INSERT (new run)
start_scraper_run(runs, resume_run_id, now) ==
    IF resume_run_id # 0
    THEN [runs EXCEPT ![resume_run_id].status = "running",
                      ![resume_run_id].started_at = now]
    ELSE Append(runs, RunRow(Len(runs) + 1, now))

\* the id start_scraper_run stores in current_run_id
started_run_id(runs, resume_run_id) ==
    IF resume_run_id # 0 THEN resume_run_id ELSE Len(runs) + 1

\* end_scraper_run
end_scraper_run(runs, current_run_id, status) ==
    IF current_run_id \in DOMAIN runs
    THEN [runs EXCEPT ![current_run_id].status = status]
    ELSE runs

\* (mutant) the UPDATE writes the offset and leaves the other columns
update_run_stats_offset_only(runs, current_run_id, books_processed, editions_imported, authors_imported, errors_count, last_hardcover_book_id, last_offset) ==
    IF current_run_id \in DOMAIN runs
    THEN [runs EXCEPT ![current_run_id].last_offset = last_offset]
    ELSE runs

\* update_run_stats
update_run_stats(runs, current_run_id, books_processed, editions_imported, authors_imported, errors_count, last_hardcover_book_id, last_offset) ==
    IF current_run_id \in DOMAIN runs
    THEN [runs EXCEPT
            ![current_run_id].books_processed = @ + books_processed,
            ![current_run_id].editions_imported = @ + editions_imported,
            ![current_run_id].authors_imported = @ + authors_imported,
            ![current_run_id].errors_count = @ + errors_count,
            ![current_run_id].last_hardcover_book_id =
                IF last_hardcover_book_id # 0 THEN last_hardcover_book_id ELSE @,
            ![current_run_id].last_offset = last_offset]
    ELSE runs

\* log_error: the row references the current run (or no run, id 0)
log_error(errors, runs, current_run_id, error_type, hardcover_id) ==
    IF current_run_id = 0 \/ current_run_id \in DOMAIN runs
    THEN Append(errors, [scraper_run_id |-> current_run_id,
                         error_type |-> error_type,
                         hardcover_id |-> hardcover_id])
    ELSE errors

\* ------------------------------------------------------------------------
\* State
\* ------------------------------------------------------------------------
VARIABLES
    \* the store (committed state)
    scraper_runs,            \* sequence of run rows, row i has id i
    scraper_errors,          \* sequence of error rows, append-only
    db,                      \* books, authors, genres and link tables
    \* the process: DatabaseManager
    conn_alive,              \* the connection is open and usable
    current_run_id,          \* 0 is None
    author_cache, genre_cache,
    \* the process: HardcoverScraper.run
    pc,                      \* "start", "loop", "record", "ledger", "check",
                             \* "fatal" (in the except branch of run), "exited"
    running,                 \* self.running
    exit_code,
    offset, books, idx, last_book_id,
    total_books_processed, total_editions_imported,
    total_authors_imported, total_errors,
    batch_editions_imported, batch_authors_imported, batch_errors,
    \* observations
    api_calls,               \* offsets of the page requests of this execution
    result,                  \* what _process_book returned for the last record
    injected,                \* the fault the last step ran into
    signal_at,               \* where the loop was when the signal arrived
    \* environment budgets
    execs, fetches, faults

storeVars == << scraper_runs, scraper_errors, db >>
dbmVars == << conn_alive, current_run_id, author_cache, genre_cache >>
procVars == << pc, running, exit_code >>
pageVars == << books, idx, batch_editions_imported, batch_authors_imported,
               batch_errors >>
totalVars == << last_book_id, total_books_processed, total_editions_imported,
                total_authors_imported, total_errors >>
obsVars == << api_calls, result, injected, signal_at >>
envVars == << execs, fetches, faults >>
mainVars == << storeVars, dbmVars, procVars, offset, pageVars, totalVars,
              obsVars, envVars >>

\* RateLimiter and the clock it reads (time.time(), in ticks)
VARIABLES
    now,                     \* the clock
    last_request_time,       \* RateLimiter.last_request_time
    gpc,                     \* "loop", "decide", "sleep", "stamp", "fetch"
    current_time,            \* local of wait()
    sleep_until,             \* earliest time at which time.sleep returns
    prev_return,             \* observation: when wait() last returned (0: never)
    permitted                \* observation: wait() returned since the last fetch

gateVars == << now, last_request_time, gpc, current_time, sleep_until,
               prev_return, permitted >>

\* the connection between two statements of a handler
VARIABLES
    uncommitted              \* what the open transaction has written and not
                             \* yet committed: nothing, the tables after the
                             \* statements of import_edition, or the ledger
                             \* after the UPDATE of update_run_stats

txVars == << uncommitted >>

vars == << mainVars, gateVars, txVars >>

\* no statement since the last commit or rollback wrote anything
NoTransaction == [kind |-> "none"]

\* RateLimiter.__init__: self.delay = 60.0 / requests_per_minute
delay == TicksPerMinute \div REQUESTS_PER_MINUTE

\* RateLimiter.__init__; the clock is the time since the epoch, far beyond
\* one delay
GateInit ==
    /\ now = delay /\ last_request_time = 0 /\ gpc = "loop"
    /\ current_time = 0 /\ sleep_until = 0
    /\ prev_return = 0 /\ permitted = FALSE

NoResult ==
    [success |-> FALSE, authors_imported |-> 0, error_message |-> <<>>,
     raised |-> FALSE]

\* HardcoverScraper.__init__ and DatabaseManager.__init__ of a new process
Init ==
    /\ scraper_runs = <<>> /\ scraper_errors = <<>> /\ db = EmptyTables
    /\ conn_alive = FALSE /\ current_run_id = 0
    /\ author_cache = {} /\ genre_cache = {}
    /\ pc = "start" /\ running = TRUE /\ exit_code = 0
    /\ offset = 0 /\ books = <<>> /\ idx = 0 /\ last_book_id = 0
    /\ total_books_processed = 0 /\ total_editions_imported = 0
    /\ total_authors_imported = 0 /\ total_errors = 0
    /\ batch_editions_imported = 0 /\ batch_authors_imported = 0
    /\ batch_errors = 0
    /\ api_calls = <<>> /\ result = NoResult /\ injected = NoFault
    /\ signal_at = "none"
    /\ execs = 1 /\ fetches = 0 /\ faults = 0
    /\ GateInit
    /\ uncommitted = NoTransaction

\* a step may run into fault f if f is no fault or the budget allows one
MayFault(f) == f = NoFault \/ faults < MaxFaults
Charge(f) == faults' = IF f = NoFault THEN faults ELSE faults + 1

\* the process ends with the given status: its connection is closed and its
\* memory (flag, caches, loop variables) is gone
Exit(code) ==
    /\ pc' = "exited" /\ exit_code' = code
    /\ conn_alive' = FALSE /\ current_run_id' = 0 /\ running' = FALSE
    /\ api_calls' = <<>> /\ result' = NoResult /\ signal_at' = "none"
    /\ author_cache' = {} /\ genre_cache' = {}
    /\ offset' = 0 /\ books' = <<>> /\ idx' = 0 /\ last_book_id' = 0
    /\ total_books_processed' = 0 /\ total_editions_imported' = 0
    /\ total_authors_imported' = 0 /\ total_errors' = 0
    /\ batch_editions_imported' = 0 /\ batch_authors_imported' = 0
    /\ batch_errors' = 0

\* ------------------------------------------------------------------------
\* Environment
\* ------------------------------------------------------------------------
\* the script is started again after the previous process ended
Launch ==
    /\ UNCHANGED << gateVars, txVars >>
    /\ pc = "exited" /\ execs < MaxExecs
    /\ pc' = "start" /\ running' = TRUE /\ exit_code' = 0
    /\ injected' = NoFault
    /\ execs' = execs + 1
    /\ UNCHANGED << storeVars, dbmVars, offset, pageVars, totalVars, api_calls,
                    result, signal_at, fetches, faults >>

\* SIGINT / SIGTERM: _signal_handler
Signal ==
    /\ UNCHANGED << gateVars, txVars >>
    /\ pc # "exited" /\ running
    /\ running' = FALSE
    /\ signal_at' = pc
    /\ UNCHANGED << storeVars, dbmVars, pc, exit_code, offset, pageVars,
                    totalVars, api_calls, result, injected, envVars >>

\* the process is killed (no handler runs); the open transaction is lost
Crash ==
    /\ UNCHANGED << gateVars, txVars >>
    /\ pc # "exited"
    /\ Exit(137)
    /\ injected' = NoFault
    /\ UNCHANGED << storeVars, envVars >>

\* the store connection is lost: every later statement, commit and rollback
\* of this process raises
ConnLost ==
    /\ UNCHANGED << gateVars, txVars >>
    /\ pc \in {"loop", "record", "ledger", "check", "fatal"}
    /\ conn_alive /\ faults < MaxFaults
    /\ conn_alive' = FALSE
    /\ faults' = faults + 1
    /\ UNCHANGED << storeVars, current_run_id, author_cache, genre_cache,
                    procVars, offset, pageVars, totalVars, obsVars, execs,
                    fetches >>

\* ------------------------------------------------------------------------
\* HardcoverScraper.run
\* ------------------------------------------------------------------------
StartFaults == {NoFault} \cup {Fault(at, 0) : at \in {"connect", "select",
                                                      "execute", "commit"}}

\* run() up to the loop: connect, get_last_incomplete_run, start_scraper_run.
\* Faults: connect() raises; the SELECT of get_last_incomplete_run fails (it
\* answers None and leaves the transaction aborted, so the statement of
\* start_scraper_run fails too); the statement of start_scraper_run fails;
\* its commit fails (current_run_id is set, the row change is rolled back).
Start(f) ==
    /\ UNCHANGED << gateVars, txVars >>
    /\ pc = "start" /\ f \in StartFaults /\ MayFault(f)
    /\ LET resume_run_id == IF f.at \in {"connect", "select"}
                            THEN 0
                            ELSE get_last_incomplete_run(scraper_runs)
       IN  /\ conn_alive' = (f.at # "connect")
           /\ offset' = resume_offset(scraper_runs, resume_run_id)
           /\ current_run_id' = IF f.at \in {"none", "commit"}
                                THEN started_run_id(scraper_runs, resume_run_id)
                                ELSE 0
           /\ scraper_runs' = IF f = NoFault
                              THEN start_scraper_run(scraper_runs, resume_run_id,
                                                     execs)
                              ELSE scraper_runs
    /\ pc' = IF f = NoFault THEN "loop" ELSE "fatal"
    /\ injected' = f /\ Charge(f)
    /\ UNCHANGED << scraper_errors, db, author_cache, genre_cache, running,
                    exit_code, pageVars, totalVars, api_calls, result,
                    signal_at, execs, fetches >>

FetchOutcomes == {"page", "empty", "raise"}

\* (mutant) the empty page is asked for again
empty_page_offset_kept(at) == at

\* (mutant) the loop reads on beyond the empty page
empty_page_offset_next(at) == at + BOOKS_PER_BATCH

\* "No more books to process, starting over...": offset = 0
empty_page_offset(at) == 0

\* (mutant) the loop does not look at the flag
loop_ignores_flag(flag) == TRUE

\* while self.running
loop_continues(flag) == flag

\* while self.running: rate_limiter.wait(); get_popular_books_with_editions.
\* The request answers the page of the catalogue, or nothing (transport
\* error, timeout, error payload), or a payload that makes the client raise.
FetchPage(outcome) ==
    /\ UNCHANGED << gateVars, txVars >>
    /\ pc = "loop" /\ loop_continues(running) /\ fetches < MaxFetches
    /\ outcome \in FetchOutcomes
    /\ fetches' = fetches + 1
    /\ api_calls' = Append(api_calls, offset)
    /\ injected' = NoFault
    /\ LET page == IF outcome = "page"
                   THEN CatalogPage(BOOKS_PER_BATCH, offset)
                   ELSE <<>>
       IN  IF outcome = "raise"
           THEN /\ pc' = "fatal"
                /\ UNCHANGED << offset, pageVars >>
           ELSE IF page = <<>>
           THEN \* "No more books to process, starting over..."
                /\ offset' = empty_page_offset(offset)
                /\ pc' = "loop"
                /\ UNCHANGED pageVars
           ELSE /\ books' = page /\ idx' = 1
                /\ batch_editions_imported' = 0
                /\ batch_authors_imported' = 0
                /\ batch_errors' = 0
                /\ pc' = "record"
                /\ UNCHANGED offset
    /\ UNCHANGED << storeVars, dbmVars, running, exit_code, totalVars, result,
                    signal_at, execs, faults >>

\* the outcome res of _process_book is "logged" when the loop counts it as
\* an error and writes an error row: it raised, or it is a rejection that is
\* not ignorable
is_logged(res) ==
    \/ res.raised
    \/ /\ ~res.success /\ res.error_message # <<>>
       /\ ~_is_ignorable_error(res.error_message)

\* (mutant) the per-record handler logs under the type of a rejection
handler_error_type_import(raised) == "import_error"

\* the error_type of the row the loop body writes: "processing_error" in the
\* except branch, "import_error" for a rejection
handler_error_type(raised) ==
    IF raised THEN "processing_error" ELSE "import_error"

\* the loop body after _process_book returned res (or raised)
Account(book, res, logged, f) ==
    /\ db' = res.st.tx
    /\ author_cache' = res.st.author_cache
    /\ genre_cache' = res.st.genre_cache
    /\ result' = [success |-> res.success,
                  authors_imported |-> res.authors_imported,
                  error_message |-> res.error_message,
                  raised |-> res.raised]
    /\ batch_editions_imported' =
           batch_editions_imported + IF res.success THEN 1 ELSE 0
    /\ total_editions_imported' =
           total_editions_imported + IF res.success THEN 1 ELSE 0
    /\ batch_authors_imported' =
           batch_authors_imported + IF res.success THEN res.authors_imported ELSE 0
    /\ total_authors_imported' =
           total_authors_imported + IF res.success THEN res.authors_imported ELSE 0
    /\ batch_errors' = batch_errors + IF logged THEN 1 ELSE 0
    /\ total_errors' = total_errors + IF logged THEN 1 ELSE 0
    /\ scraper_errors' =
           IF logged /\ f.at # "log_error"
           THEN log_error(scraper_errors, scraper_runs, current_run_id,
                          handler_error_type(res.raised),
                          IF res.raised
                          THEN book.id
                          ELSE book.default_physical_edition.id)
           ELSE scraper_errors

AccountResult(book, res, f) == Account(book, res, is_logged(res), f)

\* one iteration of "for book in books" with self.running true
ProcessRecord(f) ==
    /\ UNCHANGED << gateVars, txVars >>
    /\ pc = "record" /\ running /\ idx <= Len(books)
    /\ f \in RecordFaults(books[idx]) /\ MayFault(f)
    /\ f # NoFault => conn_alive
    /\ injected' = f /\ Charge(f)
    /\ idx' = idx + 1
    /\ IF books[idx].id = 0
       THEN \* "Book missing ID, skipping"
            UNCHANGED << storeVars, author_cache, genre_cache, pc, totalVars,
                         batch_editions_imported, batch_authors_imported,
                         batch_errors, result >>
       ELSE
       /\ last_book_id' = books[idx].id
       /\ total_books_processed' = total_books_processed + 1
       /\ IF ~conn_alive
          THEN \* every statement raises: import_edition's except branch raises
               \* again, the per-record handler counts the error and its
               \* log_error raises out of the loop
               /\ batch_errors' = batch_errors + 1
               /\ total_errors' = total_errors + 1
               /\ pc' = "fatal"
               /\ UNCHANGED << storeVars, author_cache, genre_cache,
                               total_editions_imported, total_authors_imported,
                               batch_editions_imported, batch_authors_imported,
                               result >>
          ELSE
          /\ AccountResult(books[idx],
                           _process_book([tx |-> db,
                                          author_cache |-> author_cache,
                                          genre_cache |-> genre_cache],
                                         books[idx], f),
                           f)
          /\ pc' = "record"
          /\ UNCHANGED scraper_runs
    /\ UNCHANGED << conn_alive, current_run_id, running, exit_code, offset,
                    books, api_calls, signal_at, execs, fetches >>

\* the for loop ends: no record is left, or "if not self.running: break"
EndPage ==
    /\ UNCHANGED << gateVars, txVars >>
    /\ pc = "record" /\ (idx > Len(books) \/ ~running)
    /\ pc' = "ledger"
    /\ injected' = NoFault
    /\ UNCHANGED << storeVars, dbmVars, running, exit_code, offset, pageVars,
                    totalVars, api_calls, result, signal_at, envVars >>

LedgerFaults == {NoFault, Fault("update_run_stats", 0)}

\* (mutant) the running total of the execution is handed to update_run_stats
page_count_cumulative(batch_count, total_count) == total_count

\* "use batch counts, not totals!": the count update_run_stats is given
page_count(batch_count, total_count) == batch_count

\* offset += books_per_batch; update_run_stats(...).  A failed statement is
\* logged and swallowed; on a lost connection the rollback of the except
\* branch raises.
UpdateLedger(f) ==
    /\ UNCHANGED << gateVars, txVars >>
    /\ pc = "ledger" /\ f \in LedgerFaults /\ MayFault(f)
    /\ f # NoFault => conn_alive
    /\ injected' = f /\ Charge(f)
    /\ offset' = offset + BOOKS_PER_BATCH
    /\ scraper_runs' =
           IF conn_alive /\ f = NoFault
           THEN update_run_stats(scraper_runs, current_run_id, Len(books),
                                 page_count(batch_editions_imported,
                                            total_editions_imported),
                                 page_count(batch_authors_imported,
                                            total_authors_imported),
                                 page_count(batch_errors, total_errors),
                                 last_book_id, offset + BOOKS_PER_BATCH)
           ELSE scraper_runs
    /\ pc' = IF conn_alive THEN "check" ELSE "fatal"
    /\ UNCHANGED << scraper_errors, db, dbmVars, running, exit_code, pageVars,
                    totalVars, api_calls, result, signal_at, execs, fetches >>

EndRunFaults == {NoFault, Fault("end_scraper_run", 0)}

\* (mutant) the target must be exceeded
target_reached_strict(total) == total > TARGET_BOOKS_LIMIT

\* if total_editions_imported >= self.target_books_limit
target_reached(total) == total >= TARGET_BOOKS_LIMIT

\* "Check if we've reached the target limit": end_scraper_run("completed")
\* and return, or sleep and go round the loop
CheckTarget(f) ==
    /\ UNCHANGED << gateVars, txVars >>
    /\ pc = "check" /\ f \in EndRunFaults /\ MayFault(f)
    /\ f # NoFault => conn_alive /\ target_reached(total_editions_imported)
    /\ injected' = f /\ Charge(f)
    /\ IF ~target_reached(total_editions_imported)
       THEN /\ pc' = "loop"
            /\ UNCHANGED << scraper_runs, dbmVars, running, exit_code, offset,
                            pageVars, totalVars, api_calls, result,
                            signal_at >>
       ELSE IF ~conn_alive
       THEN \* the rollback in end_scraper_run's except branch raises
            /\ pc' = "fatal"
            /\ UNCHANGED << scraper_runs, dbmVars, running, exit_code, offset,
                            pageVars, totalVars, api_calls, result,
                            signal_at >>
       ELSE /\ scraper_runs' = IF f = NoFault
                               THEN end_scraper_run(scraper_runs, current_run_id,
                                                    "completed")
                               ELSE scraper_runs
            /\ Exit(0)
    /\ UNCHANGED << scraper_errors, db, execs, fetches >>

\* the while condition is false: "Graceful shutdown"
StopRun(f) ==
    /\ UNCHANGED << gateVars, txVars >>
    /\ pc = "loop" /\ ~loop_continues(running)
    /\ f \in EndRunFaults /\ MayFault(f)
    /\ f # NoFault => conn_alive
    /\ injected' = f /\ Charge(f)
    /\ IF ~conn_alive
       THEN /\ pc' = "fatal"
            /\ UNCHANGED << scraper_runs, dbmVars, running, exit_code, offset,
                            pageVars, totalVars, api_calls, result,
                            signal_at >>
       ELSE /\ scraper_runs' = IF f = NoFault
                               THEN end_scraper_run(scraper_runs, current_run_id,
                                                    "stopped")
                               ELSE scraper_runs
            /\ Exit(0)
    /\ UNCHANGED << scraper_errors, db, execs, fetches >>

FatalFaults == {NoFault, Fault("log_error", 0), Fault("end_scraper_run", 0)}

\* the except branch of run: log_error("fatal_error"), end_scraper_run
\* ("failed"), raise; main() exits with status 1.  On a lost connection (or
\* none) log_error raises out of the branch and nothing is written.
FatalHandler(f) ==
    /\ UNCHANGED << gateVars, txVars >>
    /\ pc = "fatal" /\ f \in FatalFaults /\ MayFault(f)
    /\ f # NoFault => conn_alive
    /\ injected' = f /\ Charge(f)
    /\ scraper_errors' =
           IF conn_alive /\ f.at # "log_error"
           THEN log_error(scraper_errors, scraper_runs, current_run_id,
                          "fatal_error", 0)
           ELSE scraper_errors
    /\ scraper_runs' =
           IF conn_alive /\ f.at # "end_scraper_run"
           THEN end_scraper_run(scraper_runs, current_run_id, "failed")
           ELSE scraper_runs
    /\ Exit(1)
    /\ UNCHANGED << db, execs, fetches >>

\* ------------------------------------------------------------------------
\* Specifications
\* ------------------------------------------------------------------------
\* the steps of run() around the processing of the records of a page
Control ==
    \/ \E f \in StartFaults : Start(f)
    \/ EndPage
    \/ \E f \in LedgerFaults : UpdateLedger(f)
    \/ \E f \in EndRunFaults : CheckTarget(f)
    \/ \E f \in EndRunFaults : StopRun(f)
    \/ \E f \in FatalFaults : FatalHandler(f)

Fetch == \E outcome \in FetchOutcomes : FetchPage(outcome)

Record == \E f \in AllRecordFaults : ProcessRecord(f)

\* a step of the script itself
Step == Control \/ Fetch \/ Record

Next == Step \/ Launch \/ Signal \/ Crash \/ ConnLost

Spec == Init /\ [][Next]_vars

\* a live process keeps executing: the script is a single thread, its
\* sleeps, the rate gate and the request timeout are finite, so the statement
\* of run() that is next is eventually executed
FairSpec == Spec /\ WF_vars(Control) /\ WF_vars(Fetch)

\* ------------------------------------------------------------------------
\* run() statement by statement: the commit of import_edition and the
\* commit of update_run_stats are steps of their own, so that a signal can
\* arrive while a transaction is open
\* ------------------------------------------------------------------------
CommitFaults == {NoFault, Fault("commit", 0)}

\* what _process_book returned, with the store and caches as they are
ReturnedResult ==
    [st |-> [tx |-> db, author_cache |-> author_cache,
             genre_cache |-> genre_cache],
     success |-> result.success, authors_imported |-> result.authors_imported,
     error_message |-> result.error_message, raised |-> result.raised]

\* "for book in books" with self.running true: _process_book up to the
\* statement before RELEASE SAVEPOINT edition_import / conn.commit(); res
\* is what _process_book returns if the commit succeeds
ProcessedUpToCommit(res) ==
    /\ author_cache' = res.st.author_cache
    /\ genre_cache' = res.st.genre_cache
    /\ result' = [success |-> res.success,
                  authors_imported |-> res.authors_imported,
                  error_message |-> res.error_message,
                  raised |-> res.raised]
    /\ IF res.success
       THEN /\ uncommitted' = [kind |-> "import",
                                tx |-> before_commit(res.st.tx)]
            /\ pc' = "commit"
       ELSE \* rejected by a check: nothing was written
            /\ uncommitted' = NoTransaction
            /\ pc' = "account"

BeginRecord ==
    /\ UNCHANGED gateVars
    /\ pc = "record" /\ running /\ idx <= Len(books) /\ conn_alive
    /\ injected' = NoFault
    /\ IF books[idx].id = 0
       THEN \* "Book missing ID, skipping"
            /\ idx' = idx + 1
            /\ UNCHANGED << author_cache, genre_cache, pc, totalVars, result,
                            uncommitted >>
       ELSE /\ last_book_id' = books[idx].id
            /\ total_books_processed' = total_books_processed + 1
            /\ ProcessedUpToCommit(
                   _process_book([tx |-> db, author_cache |-> author_cache,
                                  genre_cache |-> genre_cache],
                                 books[idx], NoFault))
            /\ UNCHANGED << idx, total_editions_imported,
                            total_authors_imported, total_errors >>
    /\ UNCHANGED << storeVars, conn_alive, current_run_id, running, exit_code,
                    offset, books, batch_editions_imported,
                    batch_authors_imported, batch_errors, api_calls,
                    signal_at, envVars >>

\* what the except branch of import_edition returns after failed
FailedAtCommit(failed) ==
    /\ db' = failed.st.tx
    /\ result' = [success |-> FALSE, authors_imported |-> 0,
                  error_message |-> failed.message, raised |-> FALSE]

\* RELEASE SAVEPOINT edition_import; conn.commit(), or the except branch
\* of import_edition when the store rejects them
CommitImport(f) ==
    /\ UNCHANGED gateVars
    /\ pc = "commit" /\ f \in CommitFaults /\ MayFault(f)
    /\ injected' = f /\ Charge(f)
    /\ IF f = NoFault
       THEN /\ db' = commit(uncommitted.tx)
            /\ UNCHANGED result
       ELSE FailedAtCommit(
                import_failed(db, [tx |-> uncommitted.tx,
                                   author_cache |-> author_cache,
                                   genre_cache |-> genre_cache], f))
    /\ uncommitted' = NoTransaction
    /\ pc' = "account"
    /\ UNCHANGED << scraper_runs, scraper_errors, dbmVars, running, exit_code,
                    offset, pageVars, totalVars, api_calls, signal_at, execs,
                    fetches >>

\* the loop body after _process_book returned
AccountRecord ==
    /\ UNCHANGED gateVars
    /\ pc = "account"
    /\ AccountResult(books[idx], ReturnedResult, NoFault)
    /\ idx' = idx + 1
    /\ pc' = "record"
    /\ injected' = NoFault
    /\ UNCHANGED << scraper_runs, conn_alive, current_run_id, running,
                    exit_code, offset, books, last_book_id,
                    total_books_processed, api_calls, signal_at, envVars,
                    uncommitted >>

\* offset += books_per_batch; update_run_stats up to cursor.execute(query)
ExecuteLedgerUpdate ==
    /\ UNCHANGED gateVars
    /\ pc = "ledger" /\ conn_alive
    /\ offset' = offset + BOOKS_PER_BATCH
    /\ uncommitted' =
           [kind |-> "ledger",
            runs |-> update_run_stats(scraper_runs, current_run_id, Len(books),
                                      page_count(batch_editions_imported,
                                                 total_editions_imported),
                                      page_count(batch_authors_imported,
                                                 total_authors_imported),
                                      page_count(batch_errors, total_errors),
                                      last_book_id, offset + BOOKS_PER_BATCH)]
    /\ pc' = "ledger_commit"
    /\ injected' = NoFault
    /\ UNCHANGED << storeVars, dbmVars, running, exit_code, pageVars,
                    totalVars, api_calls, result, signal_at, envVars >>

\* self.conn.commit() of update_run_stats, or its except branch
CommitLedgerUpdate(f) ==
    /\ UNCHANGED gateVars
    /\ pc = "ledger_commit" /\ f \in CommitFaults /\ MayFault(f)
    /\ injected' = f /\ Charge(f)
    /\ scraper_runs' = IF f = NoFault THEN uncommitted.runs ELSE scraper_runs
    /\ uncommitted' = NoTransaction
    /\ pc' = "check"
    /\ UNCHANGED << scraper_errors, db, dbmVars, running, exit_code, offset,
                    pageVars, totalVars, api_calls, result, signal_at, execs,
                    fetches >>

ShutdownNext ==
    \/ Start(NoFault)
    \/ \E outcome \in {"page", "empty"} : FetchPage(outcome)
    \/ BeginRecord
    \/ \E f \in CommitFaults : CommitImport(f)
    \/ AccountRecord
    \/ EndPage
    \/ ExecuteLedgerUpdate
    \/ \E f \in CommitFaults : CommitLedgerUpdate(f)
    \/ CheckTarget(NoFault)
    \/ StopRun(NoFault)
    \/ Launch
    \/ Signal

ShutdownSpec == Init /\ [][ShutdownNext]_vars

\* ------------------------------------------------------------------------
\* The rate gate in the loop of run(): wait(), the page request, and the
\* rest of the iteration, while the clock advances
\* ------------------------------------------------------------------------
\* time passes (processing, sleeps, the request, scheduling)
Tick ==
    /\ UNCHANGED << mainVars, txVars >>
    /\ now < MaxTime
    /\ now' = now + 1
    /\ UNCHANGED << last_request_time, gpc, current_time, sleep_until,
                    prev_return, permitted >>

\* wait(): current_time = time.time()
WaitEnter ==
    /\ UNCHANGED << mainVars, txVars >>
    /\ gpc = "loop"
    /\ current_time' = now
    /\ gpc' = "decide"
    /\ UNCHANGED << now, last_request_time, sleep_until, prev_return,
                    permitted >>

\* sleep_time = self.delay - time_since_last
sleep_time(time_since_last) == delay - time_since_last

\* wait(): if time_since_last < self.delay: time.sleep(sleep_time)
WaitDecide ==
    /\ UNCHANGED << mainVars, txVars >>
    /\ gpc = "decide"
    /\ IF current_time - last_request_time < delay
       THEN /\ sleep_until' = now + sleep_time(current_time - last_request_time)
            /\ gpc' = "sleep"
       ELSE /\ gpc' = "stamp"
            /\ UNCHANGED sleep_until
    /\ UNCHANGED << now, last_request_time, current_time, prev_return,
                    permitted >>

\* time.sleep returns, no earlier than asked
WaitWake ==
    /\ UNCHANGED << mainVars, txVars >>
    /\ gpc = "sleep" /\ now >= sleep_until
    /\ gpc' = "stamp"
    /\ UNCHANGED << now, last_request_time, current_time, sleep_until,
                    prev_return, permitted >>

\* (mutant) the gate remembers when wait() was entered
stamp_entry(entered, clock) == entered

\* self.last_request_time = time.time()
stamp(entered, clock) == clock

\* wait(): self.last_request_time = time.time(), and wait() returns
WaitReturn ==
    /\ UNCHANGED << mainVars, txVars >>
    /\ gpc = "stamp"
    /\ last_request_time' = stamp(current_time, now)
    /\ prev_return' = now
    /\ permitted' = TRUE
    /\ gpc' = "fetch"
    /\ UNCHANGED << now, current_time, sleep_until >>

\* self.api.get_popular_books_with_editions(...), then the rest of the
\* iteration up to the next wait()
GateFetch ==
    /\ UNCHANGED << mainVars, txVars >>
    /\ gpc = "fetch"
    /\ permitted' = FALSE
    /\ gpc' = "loop"
    /\ UNCHANGED << now, last_request_time, current_time, sleep_until,
                    prev_return >>

GateNext ==
    Tick \/ WaitEnter \/ WaitDecide \/ WaitWake \/ WaitReturn \/ GateFetch

GateSpec == Init /\ [][GateNext]_vars

\* ------------------------------------------------------------------------
\* _process_book / import_edition applied to one record of any shape: the
\* fields of the record are drawn from small sets that cover each check of
\* import_edition, the store is empty or holds the first book of the
\* catalogue, and the caches are those of a new process or of the process
\* that imported that book.
\* ------------------------------------------------------------------------
TitleInputs == { <<>>, << " " >>, << "A", " " >> }

Isbn10Inputs ==
    { <<>>, Isbn10("1"), Isbn10("4"),
      << " " >> \o Isbn10("5") \o << " " >>,
      [i \in 1..(ISBN_10_LENGTH - 1) |-> "6"],
      [i \in 1..ISBN_10_LENGTH |-> IF i = ISBN_10_LENGTH THEN "X" ELSE "7"],
      [i \in 1..ISBN_10_LENGTH |->
          IF i = ISBN_10_LENGTH THEN SuperscriptTwo ELSE "9"] }

Isbn13Inputs ==
    { <<>>, Isbn13("2"),
      [i \in 1..ISBN_13_LENGTH |-> IF i = 1 THEN "-" ELSE "8"] }

LanguageInputs == { "", "English", "EN", "French" }

ContributionInputs ==
    { <<>>, << Contribution(1, "bio") >>,
      << Contribution(1, ""), Contribution(3, ""), Contribution(2, "bio") >>,
      << Contribution(1, "bio"), Contribution(1, "bio"),
         Contribution(2, "bio") >> }

TagInputs ==
    { <<>>, << Tag("Fantasy", 20) >>, << Tag("fantasy", 5) >>,
      << Tag("Fantasy", 5), Tag("Drama", 25) >>,
      << Tag("Drama", 5), Tag("Fantasy", 5) >>,
      << Tag("Fantasy", 5), Tag("Drama", 5) >>,
      << Tag("Drama", 19), Tag("", 30) >> }

BookInputs ==
    { Book(id, Edition(10 + id, title, isbn_10, isbn_13, language, contributions),
           genre_tags) :
          id \in {1, 2}, title \in TitleInputs, isbn_10 \in Isbn10Inputs,
          isbn_13 \in Isbn13Inputs, language \in LanguageInputs,
          contributions \in ContributionInputs, genre_tags \in TagInputs }

NewProcessStore == [tx |-> EmptyTables, author_cache |-> {}, genre_cache |-> {}]

\* the store and caches after the first book of the catalogue was imported
SeededStore == _process_book(NewProcessStore, Catalog[1], NoFault).st

\* the store and caches of a process that imported the second book of the
\* catalogue published in English, and then failed to commit the first book
EnglishEdition(book) == [book EXCEPT !.default_physical_edition.language = "English"]

DramaStore == _process_book(NewProcessStore, EnglishEdition(Catalog[2]), NoFault).st

RolledBackStore == _process_book(DramaStore, Catalog[1], Fault("commit", 0)).st

StoreInputs ==
    { NewProcessStore, SeededStore,
      [NewProcessStore EXCEPT !.tx = SeededStore.tx],
      RolledBackStore }

ImportInit ==
    /\ scraper_runs = <<>> /\ scraper_errors = <<>>
    /\ \E st \in StoreInputs :
           /\ db = st.tx
           /\ author_cache = st.author_cache /\ genre_cache = st.genre_cache
    /\ conn_alive = TRUE /\ current_run_id = 0
    /\ pc = "process_book" /\ running = TRUE /\ exit_code = 0
    /\ offset = 0 /\ idx = 1 /\ last_book_id = 0
    /\ books \in { << b >> : b \in BookInputs }
    /\ total_books_processed = 0 /\ total_editions_imported = 0
    /\ total_authors_imported = 0 /\ total_errors = 0
    /\ batch_editions_imported = 0 /\ batch_authors_imported = 0
    /\ batch_errors = 0
    /\ api_calls = <<>> /\ result = NoResult /\ injected = NoFault
    /\ signal_at = "none"
    /\ execs = 1 /\ fetches = 0 /\ faults = 0
    /\ GateInit
    /\ uncommitted = NoTransaction

\* what the step leaves of the outcome res of _process_book
Returned(res) ==
    /\ db' = res.st.tx
    /\ author_cache' = res.st.author_cache
    /\ genre_cache' = res.st.genre_cache
    /\ result' = [success |-> res.success,
                  authors_imported |-> res.authors_imported,
                  error_message |-> res.error_message,
                  raised |-> res.raised]

\* self._process_book(book)
ApplyProcessBook ==
    /\ pc = "process_book" /\ idx = 1
    /\ idx' = 2
    /\ Returned(_process_book([tx |-> db, author_cache |-> author_cache,
                               genre_cache |-> genre_cache],
                              books[1], NoFault))
    /\ UNCHANGED << scraper_runs, scraper_errors, conn_alive, current_run_id,
                    procVars, offset, books, batch_editions_imported,
                    batch_authors_imported, batch_errors, totalVars, api_calls,
                    injected, signal_at, envVars, gateVars, txVars >>

ImportSpec == ImportInit /\ [][ApplyProcessBook]_vars

\* ------------------------------------------------------------------------
\* Properties
\* ------------------------------------------------------------------------
\* the steps the properties speak about
RunStarts == pc = "start" /\ pc' = "loop"
FirstFetch == api_calls = <<>> /\ api_calls' # <<>>
PageFetched == Len(api_calls') > Len(api_calls)
RecordProcessed == pc = "record" /\ idx' = idx + 1
RecordReturned == RecordProcessed /\ pc' = "record"

\* the rows of scraper_runs a resume may pick up
Resumable(runs) == {i \in DOMAIN runs : runs[i].status \in {"running", "stopped"}}

\* C1 (resumability): a run that starts while a stopped or running RunState
\* exists reuses that row (no row is added, its counters and offset are
\* kept) and continues at the row's stored offset; otherwise it adds a new
\* row and starts at 0.  The first page request of an execution is made at
\* the stored offset of its RunState.
C1_Resumability ==
    [][ /\ RunStarts =>
             IF Resumable(scraper_runs) # {}
             THEN /\ Len(scraper_runs') = Len(scraper_runs)
                  /\ current_run_id' \in Resumable(scraper_runs)
                  /\ scraper_runs' =
                         [scraper_runs EXCEPT
                            ![current_run_id'].status = "running",
                            ![current_run_id'].started_at =
                                scraper_runs'[current_run_id'].started_at]
                  /\ offset' = scraper_runs[current_run_id'].last_offset
             ELSE /\ Len(scraper_runs') = Len(scraper_runs) + 1
                  /\ current_run_id' = Len(scraper_runs')
                  /\ scraper_runs'[current_run_id'].last_offset = 0
                  /\ offset' = 0
        /\ FirstFetch =>
             api_calls' = << scraper_runs[current_run_id].last_offset >>
      ]_vars

\* a second execution resumed the only run and requested its first page at
\* the stored offset, one batch in
C1_ResumedAtStoredOffset ==
    /\ execs = 2 /\ Len(scraper_runs) = 1
    /\ api_calls = << BOOKS_PER_BATCH >>
    /\ scraper_runs[1].last_offset = BOOKS_PER_BATCH

\* C2 (idempotent ingestion): no two book rows carry the same external id and
\* no two link rows the same (book, author) or (book, genre) pair; processing
\* a record whose edition is already stored changes no catalogue table and
\* writes no error row, and the attempt is rejected with an ignorable
\* "already imported" / "duplicate" message.
C2_IdempotentIngestion ==
    [][ /\ \A b1, b2 \in db'.books :
               b1.external_id = b2.external_id => b1 = b2
        /\ \A l1, l2 \in db'.book_authors :
               (l1.book_id = l2.book_id /\ l1.author_id = l2.author_id)
                   => l1 = l2
        /\ \A l1, l2 \in db'.book_genres :
               (l1.book_id = l2.book_id /\ l1.genre_id = l2.genre_id)
                   => l1 = l2
        /\ ( /\ RecordProcessed
             /\ \E b \in db.books :
                    b.external_id = books[idx].default_physical_edition.id )
           => /\ db' = db
              /\ scraper_errors' = scraper_errors
              /\ total_editions_imported' = total_editions_imported
              /\ pc' = "record" =>
                     /\ ~result'.success
                     /\ result'.error_message \in
                            { << "Already", "imported" >>,
                              << "Duplicate", "ISBN-10" >>,
                              << "Duplicate", "ISBN-13" >> }
      ]_vars

\* a record was processed again after its edition had been stored
C2_ProcessedTwice ==
    /\ pc = "record" /\ idx > 1
    /\ result.error_message = << "Already", "imported" >>
    /\ \E b \in db.books :
           b.external_id = books[idx - 1].default_physical_edition.id

\* the link rows of a book
AuthorLinks(tables, book_id) ==
    {l \in tables.book_authors : l.book_id = book_id}
GenreLinks(tables, book_id) ==
    {l \in tables.book_genres : l.book_id = book_id}

\* the cache names a row that was rolled back
StaleAuthor(hardcover_id) ==
    /\ cached(author_cache, hardcover_id)
    /\ ~author_row_exists(db, cache_get(author_cache, hardcover_id))
StaleGenre(name) ==
    /\ cached(genre_cache, lower(name))
    /\ ~genre_row_exists(db, cache_get(genre_cache, lower(name)))

\* book row nb is linked to the author / genre of the source
LinkedToAuthor(tables, nb, hardcover_id) ==
    \E l \in AuthorLinks(tables, nb.id) :
        \E a \in tables.authors :
            a.id = l.author_id /\ a.external_id = hardcover_id
LinkedToGenre(tables, nb, name) ==
    \E l \in GenreLinks(tables, nb.id) :
        \E g \in tables.genres :
            g.id = l.genre_id /\ lower(g.name) = lower(name)

\* C3 (a book is never partially persisted): every link row belongs to a
\* stored book and a stored author or genre; a stored book and its links
\* never change afterwards; a book row appears only in the step that
\* processes its record successfully, together with the link of every
\* contributor with a biography and of every popular tag that was not hit
\* by a fault (or a stale cache entry); an unsuccessful record leaves the
\* catalogue tables as they were.
C3_NeverPartiallyPersisted ==
    [][ /\ \A l \in db'.book_authors :
               /\ \E b \in db'.books : b.id = l.book_id
               /\ \E a \in db'.authors : a.id = l.author_id
        /\ \A l \in db'.book_genres :
               /\ \E b \in db'.books : b.id = l.book_id
               /\ \E g \in db'.genres : g.id = l.genre_id
        /\ \A b \in db.books :
               /\ b \in db'.books
               /\ AuthorLinks(db', b.id) = AuthorLinks(db, b.id)
               /\ GenreLinks(db', b.id) = GenreLinks(db, b.id)
        /\ db'.books # db.books => RecordReturned /\ result'.success
        /\ (RecordReturned /\ ~result'.success) =>
               /\ db'.books = db.books
               /\ db'.authors = db.authors /\ db'.genres = db.genres
               /\ db'.book_authors = db.book_authors
               /\ db'.book_genres = db.book_genres
        /\ (RecordReturned /\ result'.success) =>
               LET ed == books[idx].default_physical_edition
                   tags == books[idx].cached_tags
               IN  \E nb \in db'.books \ db.books :
                     /\ db'.books = db.books \cup {nb}
                     /\ nb.external_id = ed.id
                     /\ \A i \in DOMAIN ed.contributions :
                          IF ed.contributions[i].bio = ""
                          THEN ~LinkedToAuthor(db', nb, ed.contributions[i].id)
                          ELSE \/ LinkedToAuthor(db', nb, ed.contributions[i].id)
                               \/ injected' \in {Fault("author", i),
                                                 Fault("author_link", i)}
                               \/ StaleAuthor(ed.contributions[i].id)
                     /\ \A k \in DOMAIN tags :
                          tags[k].count >= MIN_GENRE_TAG_COUNT =>
                               \/ LinkedToGenre(db', nb, tags[k].tag)
                               \/ injected'.at \in {"genre", "genre_link"}
                               \/ StaleGenre(tags[k].tag)
                     /\ \A l \in AuthorLinks(db', nb.id) :
                          \E i \in DOMAIN ed.contributions :
                              LinkedToAuthor(db', nb, ed.contributions[i].id)
                              /\ \E a \in db'.authors :
                                     a.id = l.author_id
                                     /\ a.external_id = ed.contributions[i].id
                     /\ \A l \in GenreLinks(db', nb.id) :
                          \E k \in DOMAIN tags :
                              \E g \in db'.genres :
                                  g.id = l.genre_id
                                  /\ lower(g.name) = lower(tags[k].tag)
      ]_vars

\* an import failed at its commit, after the book row and its links were
\* written, and nothing of it is stored
C3_FailedAtCommit ==
    /\ pc = "record" /\ injected.at = "commit"
    /\ result.error_message =
           << "Error", "importing", "edition", "statement", "failed", "commit" >>
    /\ db.books = {} /\ db.authors = {} /\ db.book_authors = {}
    /\ db.book_seq = 1

\* C4 (the offset advances only past attempted records): a write that
\* advances a stored offset past a page happens only when every record of
\* the page was attempted.
C4_OffsetAfterAllAttempted ==
    [][ (\E i \in DOMAIN scraper_runs :
             scraper_runs'[i].last_offset > scraper_runs[i].last_offset)
        => idx > Len(books)
      ]_vars

\* C5 (monotone offset): no write lowers the stored offset of a RunState.
C5_OffsetNeverDecreases ==
    [][ \A i \in DOMAIN scraper_runs :
            i \in DOMAIN scraper_runs' =>
                scraper_runs'[i].last_offset >= scraper_runs[i].last_offset
      ]_vars

\* C6 (one resumable run): at most one RunState row is 'running' or
\* 'stopped', whatever way the earlier executions ended.
C6_OneResumableRun ==
    Cardinality({i \in DOMAIN scraper_runs :
                     scraper_runs[i].status \in {"running", "stopped"}}) <= 1

\* a finished run and a later run that is resumable
C6_SecondRunAfterFinished ==
    /\ Len(scraper_runs) = 2
    /\ scraper_runs[1].status \in {"completed", "failed"}
    /\ scraper_runs[2].status \in {"running", "stopped"}

\* the record can be imported: it has a title, a valid ISBN and a supported
\* language, and its edition is not stored yet
Importable(book) ==
    /\ strip(book.default_physical_edition.title) # <<>>
    /\ \/ _validate_isbn(book.default_physical_edition.isbn_10,
                         ISBN_10_LENGTH) # <<>>
       \/ _validate_isbn(book.default_physical_edition.isbn_13,
                         ISBN_13_LENGTH) # <<>>
    /\ _validate_language(book.default_physical_edition).valid
    /\ ~\E b \in db.books :
            b.external_id = book.default_physical_edition.id

\* the genre names import_edition is given for the record
ExtractedGenres(book, f) ==
    _extract_genres_from_tags([tx |-> db, author_cache |-> author_cache,
                               genre_cache |-> genre_cache],
                              book.cached_tags, f).genres

\* C7 (partial-link resilience): when the link insert of one author or one
\* genre fails while an importable record is processed, the import still
\* succeeds: the book row is stored, the failed link is absent, every other
\* author with a biography and every other genre is linked (unless its cache
\* entry is stale), and the reported author count is the number of author
\* links stored for the book.
C7_PartialLinkResilience ==
    [][ ( /\ RecordReturned
          /\ injected'.at \in {"author_link", "genre_link"}
          /\ Importable(books[idx]) )
        => LET ed == books[idx].default_physical_edition
               genres == ExtractedGenres(books[idx], injected')
               k == injected'.k
           IN  /\ result'.success
               /\ \E nb \in db'.books \ db.books :
                    /\ nb.external_id = ed.id
                    /\ result'.authors_imported =
                           Cardinality(AuthorLinks(db', nb.id))
                    /\ \A i \in DOMAIN ed.contributions :
                         IF ed.contributions[i].bio = ""
                            \/ (injected'.at = "author_link" /\ i = k)
                         THEN ~LinkedToAuthor(db', nb, ed.contributions[i].id)
                         ELSE \/ LinkedToAuthor(db', nb, ed.contributions[i].id)
                              \/ StaleAuthor(ed.contributions[i].id)
                    /\ \A j \in DOMAIN genres :
                         IF injected'.at = "genre_link" /\ j = k
                         THEN ~LinkedToGenre(db', nb, genres[j])
                         ELSE \/ LinkedToGenre(db', nb, genres[j])
                              \/ StaleGenre(genres[j])
      ]_vars

\* the link of the first of two authors failed: the book is stored with one
\* author link and the import reports one author
C7_OneOfTwoLinked ==
    /\ pc = "record" /\ injected = Fault("author_link", 1)
    /\ result.success /\ result.authors_imported = 1
    /\ Cardinality(db.books) = 1 /\ Cardinality(db.book_authors) = 1
    /\ Cardinality(db.authors) = 2

GracefulExit ==
    /\ pc # "exited" /\ pc' = "exited" /\ exit_code' = 0
    /\ ~running /\ signal_at \in {"start", "loop", "record", "ledger", "check"}
    /\ injected' = NoFault
    /\ current_run_id \in DOMAIN scraper_runs

C10_FatalFailure ==
    [][ ( /\ pc = "fatal" /\ pc' = "exited" /\ exit_code' = 1
          /\ injected' = NoFault
          /\ current_run_id \in DOMAIN scraper_runs )
        => /\ scraper_runs'[current_run_id].status = "failed"
           /\ Len(scraper_errors') = Len(scraper_errors) + 1
           /\ scraper_errors'[Len(scraper_errors')].error_type = "fatal_error"
           /\ scraper_errors'[Len(scraper_errors')].scraper_run_id
                  = current_run_id
      ]_vars

C12_BookInsertFailure ==
    [][ ( /\ RecordReturned /\ injected'.at = "book_insert"
          /\ Importable(books[idx]) )
        => /\ ~result'.success /\ ~result'.raised
           /\ result'.authors_imported = 0
           /\ result'.error_message =
                  << "Error", "importing", "edition" >> \o ErrorText(injected')
           /\ contains(result'.error_message, ErrorText(injected'))
           /\ db'.books = db.books
           /\ db'.authors = db.authors /\ db'.genres = db.genres
           /\ db'.book_authors = db.book_authors
           /\ db'.book_genres = db.book_genres
      ]_vars

\* the book insert of the first record failed and nothing of it is stored
C12_InsertFailed ==
    /\ pc = "record" /\ idx = 2 /\ injected.at = "book_insert"
    /\ ErrorText(injected) = SubSeq(result.error_message, 4, 6)
    /\ db.books = {} /\ db.authors = {} /\ db.genres = {}
    /\ db.book_authors = {} /\ db.book_genres = {}

\* the reason names a duplicate: it contains 'duplicate', 'already exists'
\* or 'already imported' in any letter case
DuplicateLike(msg) ==
    \E i \in DOMAIN msg :
        \/ lower(msg[i]) = "duplicate"
        \/ /\ i < Len(msg) /\ lower(msg[i]) = "already"
           /\ lower(msg[i + 1]) \in {"exists", "imported"}

C14_RateGate ==
    [][ /\ (gpc = "fetch" /\ gpc' = "loop") => permitted
        /\ (gpc = "stamp" /\ gpc' = "fetch" /\ prev_return # 0)
               => now >= prev_return + delay
        /\ (gpc = "decide" /\ prev_return = 0) => gpc' # "sleep"
        /\ (gpc = "decide" /\ gpc' = "stamp" /\ prev_return # 0)
               => current_time >= prev_return + delay
      ]_vars

\* after an idle period of more than one delay a wait() passed without
\* sleeping, and the wait() that followed it at once is asleep
C14_SleepsAfterIdlePass ==
    /\ gpc = "sleep" /\ prev_return >= 3 * delay
    /\ now = prev_return /\ sleep_until = prev_return + delay

\* ------------------------------------------------------------------------
\* Single-record properties (ImportSpec)
\* ------------------------------------------------------------------------
\* the record that ImportSpec processes and its edition
TheBook == books[1]
TheEdition == books[1].default_physical_edition

\* the step in which _process_book reaches import_edition: the edition is
\* not yet in the store by its source id
ImportEditionCalled ==
    /\ pc = "process_book" /\ idx = 1 /\ idx' = 2
    /\ \A b \in db.books : b.external_id # TheEdition.id

\* the state after that step
ImportEditionReturned ==
    /\ pc = "process_book" /\ idx = 2
    /\ result.error_message # << "Already", "imported" >>

BlankTitle(title) == \A i \in 1..Len(title) : title[i] = " "

NoValidIdentifier(edition_data) ==
    /\ _validate_isbn(edition_data.isbn_10, ISBN_10_LENGTH) = <<>>
    /\ _validate_isbn(edition_data.isbn_13, ISBN_13_LENGTH) = <<>>

IdentifierPersisted(tx, edition_data) ==
    \E b \in tx.books :
        \/ /\ b.isbn_10 # <<>>
           /\ b.isbn_10 = _validate_isbn(edition_data.isbn_10, ISBN_10_LENGTH)
        \/ /\ b.isbn_13 # <<>>
           /\ b.isbn_13 = _validate_isbn(edition_data.isbn_13, ISBN_13_LENGTH)

UnsupportedLanguage(language) ==
    language \notin {"", "English", "english", "EN", "en"}

\* the first of the four checks that the edition fails on the store tx
FirstFailingCheck(tx, edition_data) ==
    IF BlankTitle(edition_data.title) THEN "title"
    ELSE IF NoValidIdentifier(edition_data) THEN "identifier"
    ELSE IF IdentifierPersisted(tx, edition_data) THEN "duplicate"
    ELSE IF UnsupportedLanguage(edition_data.language) THEN "language"
    ELSE "none"

ReportsCheck(error_message, check) ==
    CASE check = "title" -> error_message = << "Missing", "title" >>
      [] check = "identifier" ->
             error_message = << "Missing", "or", "invalid", "ISBNs" >>
      [] check = "duplicate" ->
             error_message # <<>> /\ Head(error_message) = "Duplicate"
      [] check = "language" ->
             contains(error_message, << "Non-English" >>)
      [] OTHER -> error_message = <<>>

\* C15 (validation order): import_edition reports the earliest failing
\* check of title, identifiers, duplicate identifier, language, in this
\* order; an edition that fails a check is rejected and the store is left
\* as it was; an edition that passes all four is imported.
C15_ValidationOrder ==
    [][ ImportEditionCalled =>
            /\ ReportsCheck(result'.error_message,
                            FirstFailingCheck(db, TheEdition))
            /\ FirstFailingCheck(db, TheEdition) # "none"
                   => ~result'.success /\ db' = db
            /\ FirstFailingCheck(db, TheEdition) = "none"
                   => /\ result'.success
                      /\ \E b \in db'.books : b.external_id = TheEdition.id
      ]_vars

\* a French edition whose ISBN-10 is already stored was rejected as a
\* duplicate
C15_DuplicateAndFrench ==
    /\ ImportEditionReturned
    /\ TheEdition.language = "French"
    /\ ~BlankTitle(TheEdition.title)
    /\ result.error_message = << "Duplicate", "ISBN-10" >>

\* the code as the claim accepts it: surrounded by blanks only, of length n
\* and made of the decimal digits 0-9; <<>> when it is absent
DecimalCode(code, n) ==
    LET inner == { p \in (1..Len(code)) \X (1..Len(code)) :
                     /\ p[2] - p[1] + 1 = n
                     /\ \A k \in 1..Len(code) :
                            IF k >= p[1] /\ k <= p[2]
                            THEN code[k] \in Digits
                            ELSE code[k] = " " }
    IN  IF inner = {} THEN <<>>
        ELSE LET p == CHOOSE q \in inner : TRUE IN SubSeq(code, p[1], p[2])

\* C16 (identifier validation): a candidate identifier is accepted only if
\* its trimmed text has length 10 (ISBN-10) or 13 (ISBN-13) and consists of
\* decimal digits only, and is absent otherwise; an edition with both
\* identifiers absent is rejected as missing or invalid identifiers and
\* nothing is persisted; a stored book carries the accepted identifiers.
C16_IdentifierValidation ==
    [][ (ImportEditionCalled /\ ~BlankTitle(TheEdition.title)) =>
            /\ ( /\ DecimalCode(TheEdition.isbn_10, ISBN_10_LENGTH) = <<>>
                 /\ DecimalCode(TheEdition.isbn_13, ISBN_13_LENGTH) = <<>> )
                   => /\ result'.error_message
                             = << "Missing", "or", "invalid", "ISBNs" >>
                      /\ db' = db
            /\ \A b \in db'.books \ db.books :
                   /\ b.isbn_10 = DecimalCode(TheEdition.isbn_10, ISBN_10_LENGTH)
                   /\ b.isbn_13 = DecimalCode(TheEdition.isbn_13, ISBN_13_LENGTH)
      ]_vars

\* the author rows of tx for the contributor with source id hardcover_id
AuthorRows(tx, hardcover_id) ==
    { a \in tx.authors : a.external_id = hardcover_id }

\* the links of tx from the book of the edition to that contributor
ContributorLinks(tx, edition_data, hardcover_id) ==
    { l \in tx.book_authors :
        /\ \E b \in tx.books :
               b.id = l.book_id /\ b.external_id = edition_data.id
        /\ \E a \in AuthorRows(tx, hardcover_id) : a.id = l.author_id }

\* C17 (bio gating): importing an edition creates no author row and no
\* link for a contributor whose bio is empty; the contributor is skipped
\* without an error, the book is imported when it passes the checks, and
\* every contributor with a bio then has an author row linked to the book
\* (unless the cache names an author row that was rolled back).
C17_BioGating ==
    [][ ImportEditionCalled =>
            /\ ~result'.raised
            /\ result'.success <=> FirstFailingCheck(db, TheEdition) = "none"
            /\ \A i \in 1..Len(TheEdition.contributions) :
                   LET author_data == TheEdition.contributions[i]
                   IN  IF author_data.bio = ""
                       THEN /\ AuthorRows(db', author_data.id)
                                   = AuthorRows(db, author_data.id)
                            /\ ContributorLinks(db', TheEdition,
                                                author_data.id) = {}
                       ELSE result'.success
                               => \/ ContributorLinks(db', TheEdition,
                                                      author_data.id) # {}
                                  \/ StaleAuthor(author_data.id)
      ]_vars

\* an edition with two contributors without bio, one of them already an
\* author of the store, and one with bio was imported with one author
C17_SkippedTwoLinkedOne ==
    /\ ImportEditionReturned /\ result.success
    /\ Len(TheEdition.contributions) = 3
    /\ AuthorRows(db, 1) # {} /\ AuthorRows(db, 3) = {}
    /\ result.authors_imported = 1
    /\ ContributorLinks(db, TheEdition, 2) # {}

\* the names of the named tags of genre_tags at the positions keep, in
\* source order
RECURSIVE TagNames(_, _, _)
TagNames(i, genre_tags, keep) ==
    IF i > Len(genre_tags) THEN <<>>
    ELSE (IF i \in keep /\ genre_tags[i].tag # ""
          THEN << genre_tags[i].tag >> ELSE <<>>)
         \o TagNames(i + 1, genre_tags, keep)

\* the genre candidates of the claim for a tag list and a store
Candidates(tx, genre_tags) ==
    LET popular ==
            TagNames(1, genre_tags,
                     { i \in DOMAIN genre_tags :
                         genre_tags[i].count >= MIN_GENRE_TAG_COUNT })
        known ==
            TagNames(1, genre_tags,
                     { i \in DOMAIN genre_tags :
                         \E g \in tx.genres :
                             lower(g.name) = lower(genre_tags[i].tag) })
    IN  IF popular # <<>> THEN popular
        ELSE IF known # <<>> THEN << Head(known) >>
        ELSE <<>>

\* C18 (genre selection): the genres extracted for a record are the tags
\* with count >= 20 in source order; if there is none, the first tag in
\* source order that is a persisted genre (compared case-insensitively),
\* or no tag; when the fallback is used the import creates no genre.
C18_GenreSelection ==
    [][ ImportEditionCalled =>
            /\ ExtractedGenres(TheBook, NoFault)
                   = Candidates(db, TheBook.cached_tags)
            /\ (\A k \in DOMAIN TheBook.cached_tags :
                    TheBook.cached_tags[k].count < MIN_GENRE_TAG_COUNT)
                   => db'.genres = db.genres
      ]_vars

\* C19 as stated (language rule): every record whose language label is
\* present and, lower-cased, not in {english, en} is rejected with a reason
\* containing Non-English and no book row is persisted for it; a record
\* without a label is not rejected for its language.
C19_NonEnglishReason ==
    [][ ImportEditionCalled =>
            /\ UnsupportedLanguage(TheEdition.language)
                   => /\ ~result'.success
                      /\ contains(result'.error_message, << "Non-English" >>)
                      /\ db'.books = db.books
            /\ TheEdition.language = ""
                   => ~contains(result'.error_message, << "Non-English" >>)
      ]_vars

\* C19 (language rule): a record whose language label is present and,
\* lower-cased, not in {english, en} is rejected and no book row is
\* persisted for it; the reason contains Non-English when the record
\* passes the title, identifier and duplicate checks, and is the reason of
\* the earliest of those checks it fails otherwise.  A record without a
\* label, or with a label that lower-cased is english or en, is never
\* rejected for its language.
C19_LanguageRule ==
    [][ ImportEditionCalled =>
            /\ UnsupportedLanguage(TheEdition.language)
                   => /\ ~result'.success
                      /\ db'.books = db.books
                      /\ IF \/ BlankTitle(TheEdition.title)
                            \/ NoValidIdentifier(TheEdition)
                            \/ IdentifierPersisted(db, TheEdition)
                         THEN ~contains(result'.error_message,
                                        << "Non-English" >>)
                         ELSE contains(result'.error_message,
                                       << "Non-English" >>)
            /\ ~UnsupportedLanguage(TheEdition.language)
                   => ~contains(result'.error_message, << "Non-English" >>)
            /\ ( /\ ~UnsupportedLanguage(TheEdition.language)
                 /\ ~BlankTitle(TheEdition.title)
                 /\ ~NoValidIdentifier(TheEdition)
                 /\ ~IdentifierPersisted(db, TheEdition) )
                   => result'.success
      ]_vars

\* a French edition with a title and a new valid identifier was rejected
\* for its language
C19_FrenchRejected ==
    /\ ImportEditionReturned
    /\ TheEdition.language = "French"
    /\ result.error_message = << "Non-English", "language", "french" >>
    /\ \A b \in db.books : b.external_id # TheEdition.id

\* ------------------------------------------------------------------------
\* Shutdown (ShutdownSpec)
\* ------------------------------------------------------------------------
\* the ledger row of the current run
CurrentRun == scraper_runs[current_run_id]

\* the step commits the ledger update of the page: every column moves
LedgerRowWritten ==
    /\ scraper_runs'[current_run_id].last_offset = offset
    /\ scraper_runs'[current_run_id].last_hardcover_book_id =
           (IF last_book_id # 0 THEN last_book_id
            ELSE CurrentRun.last_hardcover_book_id)
    /\ scraper_runs'[current_run_id].books_processed =
           CurrentRun.books_processed + Len(books)
    /\ scraper_runs'[current_run_id].editions_imported =
           CurrentRun.editions_imported + batch_editions_imported
    /\ scraper_runs'[current_run_id].authors_imported =
           CurrentRun.authors_imported + batch_authors_imported
    /\ scraper_runs'[current_run_id].errors_count =
           CurrentRun.errors_count + batch_errors
    /\ scraper_runs'[current_run_id].status = CurrentRun.status

\* the step marks the current run stopped
MarkedStopped ==
    /\ current_run_id \in DOMAIN scraper_runs
    /\ scraper_runs'[current_run_id].status = "stopped"
    /\ scraper_runs' # scraper_runs

\* C20 (shutdown safety): wherever the signal arrives, the loop leaves the
\* batch only with no import transaction open (the record in flight was
\* committed or rolled back as a whole and accounted); the ledger update of
\* a page reaches the store in one commit that writes offset, last-seen id
\* and counters together; the run is marked stopped only from the loop
\* head, with nothing uncommitted and, when no commit failed, with the
\* ledger update of the last page written; the process exits with nothing
\* uncommitted.
C20_ShutdownSafety ==
    [][ /\ uncommitted # NoTransaction => pc \in {"commit", "ledger_commit"}
        /\ (pc = "commit" /\ pc' # pc)
               => /\ pc' = "account" /\ uncommitted' = NoTransaction
                  /\ \/ db' = commit(uncommitted.tx)
                     \/ db' = rollback(db, uncommitted.tx)
        /\ (pc = "record" /\ pc' = "ledger") => uncommitted = NoTransaction
        /\ (pc = "ledger_commit" /\ pc' # pc)
               => /\ pc' = "check" /\ uncommitted' = NoTransaction
                  /\ scraper_runs' = scraper_runs \/ LedgerRowWritten
        /\ (pc # "ledger_commit" /\ current_run_id \in DOMAIN scraper_runs)
               => \A col \in {"last_offset", "last_hardcover_book_id",
                               "books_processed", "editions_imported",
                               "authors_imported", "errors_count"} :
                      scraper_runs'[current_run_id][col] = CurrentRun[col]
        /\ MarkedStopped
               => /\ pc = "loop" /\ ~running
                  /\ uncommitted = NoTransaction
                  /\ (faults = 0 /\ offset # 0)
                         => /\ CurrentRun.last_offset = offset
                            /\ last_book_id # 0 =>
                                   CurrentRun.last_hardcover_book_id = last_book_id
        /\ (pc # "exited" /\ pc' = "exited")
               => uncommitted = NoTransaction /\ uncommitted' = NoTransaction
      ]_vars

\* the signal arrived between the insert of a book and its commit; the
\* book was committed and the loop left the batch before the next record
C20_SignalDuringImport ==
    /\ pc = "ledger" /\ ~running /\ signal_at = "commit"
    /\ idx <= Len(books)
    /\ result.success /\ db.books # {}
    /\ uncommitted = NoTransaction

\* ------------------------------------------------------------------------
\* Ledger writes and page handling (Spec)
\* ------------------------------------------------------------------------
\* the step runs update_run_stats and its write does not reach the store:
\* the statement is rejected, or the connection is lost
LedgerWriteFailed ==
    /\ pc = "ledger" /\ pc' # "ledger"
    /\ injected'.at = "update_run_stats" \/ ~conn_alive

\* C21 (ledger failure is fatal): when the ledger write at a page boundary
\* fails, the run is aborted (control reaches the except branch of run,
\* which marks the run failed); no page is requested while the offset in
\* memory is ahead of the stored offset of the current run.
C21_LedgerFailureFatal ==
    [][ /\ LedgerWriteFailed => pc' = "fatal"
        /\ (PageFetched /\ current_run_id \in DOMAIN scraper_runs)
               => offset <= scraper_runs[current_run_id].last_offset
      ]_vars

\* the request of the step answered no records and did not raise
EmptyPageFetched ==
    /\ pc = "loop" /\ PageFetched /\ pc' \notin {"record", "fatal"}

\* C22 (empty or failed page): a fetch that returns no records does not end
\* the run: the offset in memory becomes 0 and the loop is at its head
\* again, so that the next request is made at offset 0; no record is
\* processed and the store (ledger rows, error rows, catalogue) and the
\* counters of the loop are left as they were.  A request beyond the end of
\* the catalogue is such a fetch, and every request is made at the offset
\* in memory.
C22_EmptyPage ==
    [][ /\ EmptyPageFetched
               => /\ pc' = "loop" /\ offset' = 0
                  /\ running' = running /\ exit_code' = exit_code
                  /\ scraper_runs' = scraper_runs
                  /\ scraper_errors' = scraper_errors /\ db' = db
                  /\ books' = books /\ idx' = idx
                  /\ last_book_id' = last_book_id
                  /\ total_books_processed' = total_books_processed
                  /\ total_editions_imported' = total_editions_imported
                  /\ total_errors' = total_errors
        /\ PageFetched => api_calls'[Len(api_calls')] = offset
        /\ (PageFetched /\ CatalogPage(BOOKS_PER_BATCH, offset) = <<>>)
               => pc' # "record"
      ]_vars

\* a request at a positive offset returned no records and the next request
\* was made at offset 0
C22_RefetchedAtZero ==
    /\ pc # "exited" /\ Len(api_calls) >= 2
    /\ api_calls[Len(api_calls) - 1] > 0
    /\ api_calls[Len(api_calls)] = 0
    /\ current_run_id \in DOMAIN scraper_runs
    /\ scraper_runs[current_run_id].last_offset > 0

\* ------------------------------------------------------------------------
\* Ledger counters (ShutdownSpec)
\* ------------------------------------------------------------------------
CounterColumns == {"editions_imported", "authors_imported", "errors_count"}

\* the sum of a counter column over the first n rows of the ledger
RECURSIVE StoredCount(_, _, _)
StoredCount(runs, col, n) ==
    IF n = 0 THEN 0 ELSE runs[n][col] + StoredCount(runs, col, n - 1)

\* the ledger agrees with the store: imports, author links, error rows
CountersMatch(runs, tables, errors) ==
    /\ StoredCount(runs, "editions_imported", Len(runs))
           = Cardinality(tables.books)
    /\ StoredCount(runs, "authors_imported", Len(runs))
           = Cardinality(tables.book_authors)
    /\ StoredCount(runs, "errors_count", Len(runs)) = Len(errors)

\* the loop is between two pages
AtPageBoundary == pc \in {"loop", "check"}

Rows(tables) ==
    << tables.books, tables.authors, tables.genres, tables.book_authors,
       tables.book_genres >>

\* C24 (commit discipline): a successful import_edition issues exactly one
\* commit, after the book insert and the author and genre processing of
\* the record: no commit is issued while the book row and the links of the
\* record are written, catalogue rows become durable only in that commit,
\* the book and its links become durable in the same step, and the links
\* of a durable book do not change afterwards.
C24_CommitDiscipline ==
    [][ /\ pc = "commit"
               => /\ uncommitted.tx.commits = db.commits
                  /\ Cardinality(uncommitted.tx.books)
                         = Cardinality(db.books) + 1
        /\ db'.commits # db.commits
               => /\ pc = "commit" /\ result.success /\ result'.success
                  /\ db'.commits = db.commits + 1
                  /\ Rows(db') = Rows(uncommitted.tx)
        /\ Rows(db') # Rows(db) => db'.commits = db.commits + 1
        /\ \A b \in db.books :
               /\ AuthorLinks(db', b.id) = AuthorLinks(db, b.id)
               /\ GenreLinks(db', b.id) = GenreLinks(db, b.id)
      ]_vars

\* the first book of the catalogue became durable with its two author
\* links and its genre link in one commit
C24_BookAndLinksCommitted ==
    /\ pc = "account" /\ result.success
    /\ db.commits = 1 /\ Cardinality(db.books) = 1
    /\ Cardinality(db.book_authors) = 2 /\ Cardinality(db.book_genres) = 1

\* ------------------------------------------------------------------------
\* Reference resolution (Spec)
\* ------------------------------------------------------------------------
\* the store and the caches of the process as the resolvers see them
CurrentStore ==
    [tx |-> db, author_cache |-> author_cache, genre_cache |-> genre_cache]

\* the source ids and the names that the records of the catalogue refer to
AuthorKeys == {1, 2, 3}
GenreNames == {"Fantasy", "fantasy", "Drama"}

\* resolving the author key on st looks up or creates
AuthorResolved(st, key, got) ==
    IF cached(st.author_cache, key)
    THEN got.id = cache_get(st.author_cache, key) /\ got.st = st
    ELSE IF \E a \in st.tx.authors : a.external_id = key
    THEN /\ got.st.tx = st.tx
         /\ \E a \in st.tx.authors : a.external_id = key /\ a.id = got.id
    ELSE /\ got.st.tx.authors
                = st.tx.authors \cup {[id |-> got.id, external_id |-> key]}
         /\ \A a \in st.tx.authors : a.id # got.id

\* resolving the genre name on st looks up or creates
GenreResolved(st, name, got) ==
    IF cached(st.genre_cache, lower(name))
    THEN got.id = cache_get(st.genre_cache, lower(name)) /\ got.st = st
    ELSE IF \E g \in st.tx.genres : lower(g.name) = lower(name)
    THEN /\ got.st.tx = st.tx
         /\ \E g \in st.tx.genres :
                lower(g.name) = lower(name) /\ g.id = got.id
    ELSE /\ got.st.tx.genres = st.tx.genres \cup {[id |-> got.id, name |-> name]}
         /\ \A g \in st.tx.genres : g.id # got.id

\* resolving other after name gives the same id and creates nothing
SameGenre(first, other) ==
    /\ get_or_create_genre(first.st, other, FALSE).id = first.id
    /\ get_or_create_genre(first.st, other, FALSE).st.tx = first.st.tx

\* C25 (look-up-or-create): the store holds at most one author per source
\* id and at most one genre per lower-cased name; resolving a key that is
\* memoized or persisted returns the memoized or stored id and creates no
\* row, resolving any other key creates one row; names that differ only in
\* case resolve to the same genre id.
C25_LookUpOrCreate ==
    /\ \A a1, a2 \in db.authors : a1.external_id = a2.external_id => a1 = a2
    /\ \A g1, g2 \in db.genres : lower(g1.name) = lower(g2.name) => g1 = g2
    /\ \A key \in AuthorKeys :
           AuthorResolved(CurrentStore, key,
                          get_or_create_author(CurrentStore, key, FALSE))
    /\ \A name \in GenreNames :
           GenreResolved(CurrentStore, name,
                         get_or_create_genre(CurrentStore, name, FALSE))
    /\ SameGenre(get_or_create_genre(CurrentStore, "Fantasy", FALSE), "fantasy")
    /\ SameGenre(get_or_create_genre(CurrentStore, "fantasy", FALSE), "Fantasy")

\* the third book was imported after the first: its author 1 and its tag
\* fantasy were resolved to the rows that the first book created
C25_ResolvedToExistingRows ==
    /\ Cardinality(db.books) = 2
    /\ \E b \in db.books : b.external_id = 11
    /\ \E b \in db.books :
           /\ b.external_id = 13
           /\ LinkedToAuthor(db, b, 1) /\ LinkedToGenre(db, b, "Fantasy")
    /\ Cardinality(db.genres) = 1
    /\ Cardinality({a \in db.authors : a.external_id = 1}) = 1

\* C26 (cache consistency): between two records every id held in the
\* author cache and in the genre cache is the id of a row of the committed
\* store.
C26_CacheConsistency ==
    pc \in {"record", "ledger", "check", "loop"}
        => /\ \A e \in author_cache : author_row_exists(db, e.id)
           /\ \A e \in genre_cache : genre_row_exists(db, e.id)

\* C27 (completion count versus ledger): at every page boundary of an
\* execution without store faults, the imported total that the loop
\* compares with the target equals the stored editions_imported counter of
\* the current run, also when the execution resumed the run.
C27_CompletionCountIsLedgerCount ==
    (pc = "check" /\ faults = 0 /\ current_run_id \in DOMAIN scraper_runs)
        => total_editions_imported
               = scraper_runs[current_run_id].editions_imported

\* the author links of the book that the step stored for the edition
NewBookLinks ==
    { l \in db'.book_authors :
        \E b \in db'.books :
            b.id = l.book_id /\ b.external_id = TheEdition.id }

\* C28 (author link count and order): for every successful import the
\* returned count of linked authors equals the number of author links of
\* the book after the commit, and the links carry the positions 1..count
\* without gaps or repeats.
C28_AuthorLinkCountAndOrder ==
    [][ (ImportEditionCalled /\ result'.success) =>
            /\ result'.authors_imported = Cardinality(NewBookLinks)
            /\ { l.author_order : l \in NewBookLinks }
                   = 1..result'.authors_imported
      ]_vars

\* ------------------------------------------------------------------------
\* Records seen (Spec)
\* ------------------------------------------------------------------------

\* the records of the page in hand that the loop body attempted: those the
\* for loop reached and that carry an id
AttemptedOfPage == { i \in 1..(idx - 1) : books[i].id # 0 }

\* C29 (records-seen counter): every ledger update adds to books_processed
\* of the RunState the number of records of the page that were actually
\* attempted.
C29_RecordsSeenCounter ==
    [][ ( /\ pc = "ledger" /\ current_run_id \in DOMAIN scraper_runs
          /\ scraper_runs' # scraper_runs )
        => scraper_runs'[current_run_id].books_processed
             = CurrentRun.books_processed + Cardinality(AttemptedOfPage)
      ]_vars

\* ------------------------------------------------------------------------
\* Progress of an undisturbed execution (ProgressSpec).  One execution of
\* run() from a store left by earlier executions, with no signal, no store
\* fault and no kill; the request may fail once, before any page was
\* answered.
\* ------------------------------------------------------------------------
MaxPriorPages == 3

\* the offsets an earlier execution may have stored: whole pages
PriorOffsets == { k * BOOKS_PER_BATCH : k \in 0..MaxPriorPages }

\* the ledger before the execution: no run, or one run of an earlier
\* execution that was stopped, killed ("running") or completed
PriorRuns ==
    { <<>> } \cup
    { << [RunRow(1, 1) EXCEPT !.status = s, !.last_offset = o] >> :
          s \in {"running", "stopped", "completed"}, o \in PriorOffsets }

\* the catalogue tables before the execution: nothing, the first book of
\* the source, or the first and the third
PriorTables ==
    { EmptyTables, SeededStore.tx,
      _process_book(SeededStore, Catalog[3], NoFault).st.tx }

ProgressInit ==
    /\ scraper_runs \in PriorRuns /\ scraper_errors = <<>>
    /\ db \in PriorTables
    /\ conn_alive = FALSE /\ current_run_id = 0
    /\ author_cache = {} /\ genre_cache = {}
    /\ pc = "start" /\ running = TRUE /\ exit_code = 0
    /\ offset = 0 /\ books = <<>> /\ idx = 0 /\ last_book_id = 0
    /\ total_books_processed = 0 /\ total_editions_imported = 0
    /\ total_authors_imported = 0 /\ total_errors = 0
    /\ batch_editions_imported = 0 /\ batch_authors_imported = 0
    /\ batch_errors = 0
    /\ api_calls = <<>> /\ result = NoResult /\ injected = NoFault
    /\ signal_at = "none"
    /\ execs = Len(scraper_runs) + 1 /\ fetches = 0 /\ faults = 0
    /\ GateInit
    /\ uncommitted = NoTransaction

\* _make_request returns None (transport error, error payload) for the
\* first request of the execution
FirstRequestFails == fetches = 0 /\ FetchPage("empty")

\* the statements of run() around the records, with the source answering
ProgressControl ==
    \/ Start(NoFault)
    \/ FetchPage("page")
    \/ EndPage
    \/ UpdateLedger(NoFault)
    \/ CheckTarget(NoFault)

ProgressNext ==
    ProgressControl \/ ProcessRecord(NoFault) \/ FirstRequestFails

\* ProcessRecord(NoFault) can be taken exactly when the for loop has a
\* record in hand and the flag is set, and it always moves to the next
\* record
RecordAdvances ==
    /\ pc = "record" /\ running /\ idx <= Len(books)
    /\ idx' = idx + 1

\* the script is a single thread and its sleeps are finite: the statement
\* that is next is eventually executed, and so is the iteration of the for
\* loop that is next
ProgressSpec ==
    /\ ProgressInit /\ [][ProgressNext]_vars
    /\ WF_vars(ProgressControl) /\ WF_idx(RecordAdvances)

\* record i of the source passes every check of the import on the tables
\* and is not persisted in them
ImportableOn(tables, i) ==
    /\ Catalog[i].id # 0 /\ Catalog[i].has_edition
    /\ Catalog[i].default_physical_edition.id # 0
    /\ \A b \in tables.books :
           b.external_id # Catalog[i].default_physical_edition.id
    /\ FirstFailingCheck(tables, Catalog[i].default_physical_edition) = "none"

\* the source holds at least target records to import
EnoughToImport ==
    Cardinality({ i \in DOMAIN Catalog : ImportableOn(db, i) })
        >= TARGET_BOOKS_LIMIT

\* the execution marked its run completed and ended
CompletedAndExited ==
    /\ pc = "exited" /\ exit_code = 0
    /\ scraper_runs # <<>>
    /\ scraper_runs[Len(scraper_runs)].status = "completed"
    /\ Cardinality(db.books) >= TARGET_BOOKS_LIMIT

\* C30 (progress to completion): an execution that starts, fresh or resumed
\* at any stored offset, on a source with at least target importable records
\* and meets no signal and no store fault eventually marks the run
\* completed and exits.
C30_ProgressToCompletion ==
    (pc = "start" /\ EnoughToImport) ~> CompletedAndExited

\* a run resumed at the second page read to the end of the source, wrapped
\* to offset 0 and was completed after the first page
C30_CompletedAfterWrap ==
    /\ pc = "exited"
    /\ Len(scraper_runs) = 1 /\ scraper_runs[1].status = "completed"
    /\ scraper_runs[1].started_at = 2
    /\ scraper_runs[1].last_offset = BOOKS_PER_BATCH
    /\ scraper_runs[1].last_hardcover_book_id = Catalog[BOOKS_PER_BATCH].id
    /\ scraper_runs[1].editions_imported = TARGET_BOOKS_LIMIT

\* ------------------------------------------------------------------------
\* Terminal runs (Spec)
\* ------------------------------------------------------------------------
TerminalStatuses == {"completed", "failed"}

TerminalRuns ==
    { i \in DOMAIN scraper_runs : scraper_runs[i].status \in TerminalStatuses }

\* the step is run() up to the loop and it got a run to work on
LoopStarted == pc = "start" /\ pc' = "loop"

\* C31 (terminal runs stay terminal): a RunState with status 'completed' or
\* 'failed' is never selected for resumption and none of its columns is
\* changed again; a start of the loop resumes a 'running' or 'stopped' row
\* or creates a new row.
C31_TerminalRunsStayTerminal ==
    [][ /\ \A i \in TerminalRuns :
              /\ i \in DOMAIN scraper_runs'
              /\ scraper_runs'[i] = scraper_runs[i]
              /\ current_run_id' # i
        /\ LoopStarted =>
              \/ /\ current_run_id' \in DOMAIN scraper_runs
                 /\ scraper_runs[current_run_id'].status \in ResumableStatuses
                 /\ Len(scraper_runs') = Len(scraper_runs)
              \/ /\ current_run_id' = Len(scraper_runs) + 1
                 /\ Len(scraper_runs') = Len(scraper_runs) + 1
                 /\ \A i \in DOMAIN scraper_runs :
                        scraper_runs[i].status \in TerminalStatuses
      ]_vars

\* a later execution started a new run beside a completed one and wrote
\* the ledger of its first page
C31_NewRunBesideCompleted ==
    /\ Len(scraper_runs) = 2
    /\ scraper_runs[1].status = "completed"
    /\ scraper_runs[1].editions_imported = TARGET_BOOKS_LIMIT
    /\ current_run_id = 2
    /\ scraper_runs[2].last_offset = BOOKS_PER_BATCH

====
